---- MODULE Spec2Model ----
(***************************************************************************)
(* Model of the schema transformation engine of prisma-zod-generator:      *)
(* the Transformer class (object schemas, operation schemas) and the       *)
(* include helper (addMissingInputObjectTypesForInclude).                  *)
(*                                                                         *)
(* Text is modelled as a sequence of string tokens; identifiers are real   *)
(* strings built by concatenation.  A type or model name is the sequence   *)
(* of its CamelCase words (<<"Post", "Find", "Many", "Args">> is the name  *)
(* PostFindManyArgs), so that the substring tests of the source (includes, *)
(* indexOf, substring, endsWith) are tests on runs of words.  A path is    *)
(* the sequence of its segments.                                           *)
(***************************************************************************)
EXTENDS Integers, Sequences, FiniteSets, TLC

VARIABLES
  enumNames,           \* Transformer.enumNames (static)
  rawOpsMap,           \* Transformer.rawOpsMap (static)
  provider,            \* Transformer.provider (static)
  previewFeatures,     \* Transformer.previewFeatures (static)
  outputPath,          \* Transformer.outputPath (static), path segments
  prismaClientOutputPath,         \* static, path segments
  isCustomPrismaClientOutputPath, \* static
  prismaClientProvider,           \* static
  prismaClientConfig,             \* static
  isGenerateSelect,    \* Transformer.isGenerateSelect (static)
  isGenerateInclude,   \* Transformer.isGenerateInclude (static)
  name,                \* this.name of the object transformer
  fields,              \* this.fields of the object transformer
  schemaImports,       \* this.schemaImports, in insertion order
  hasJson,             \* this.hasJson
  zodObjectSchemaFields, \* local of generateObjectSchema: the emitted field lines
  models,              \* this.models of the model transformer
  modelOperations,     \* this.modelOperations of the model transformer
  aggregateOperationSupport, \* this.aggregateOperationSupport
  cursor,              \* generateModelSchemas: the mapping and the block reached
  inputObjectTypes,    \* the input object types handed to the include helper
  run,                 \* which generation this is, the first or the second
  previous,            \* the units of the first generation: path -> text
  enumTypes,           \* this.enumTypes of the enum transformer
  index,               \* the index unit: whether written, the paths it re-exports
  instances,           \* object transformers assembled side by side
  pc,                  \* position of the run
  files                \* units handed to writeFileSafely: path -> text

staticVars ==
  <<enumNames, rawOpsMap, provider, previewFeatures, outputPath,
    prismaClientOutputPath, isCustomPrismaClientOutputPath,
    prismaClientProvider, prismaClientConfig,
    isGenerateSelect, isGenerateInclude>>

objectVars == <<name, fields, schemaImports, hasJson, zodObjectSchemaFields>>

modelVars == <<models, modelOperations, aggregateOperationSupport, cursor>>

runVars == <<run, previous>>

unitVars == <<enumTypes, index, instances>>

vars ==
  <<staticVars, objectVars, modelVars, inputObjectTypes, runVars, unitVars,
    pc, files>>

-----------------------------------------------------------------------------
(* Bounds *)

MaxAlts == 2

MaxFields == 2

MaxModels == 2

-----------------------------------------------------------------------------
(* Strings *)

RECURSIVE Str(_)
Str(words) ==
  IF words = <<>> THEN "" ELSE Head(words) \o Str(Tail(words))

Range(s) == { s[i] : i \in 1..Len(s) }

\* an add that keeps what is already there and appends all the same
SetAdd_append(s, x) == Append(s, x)

SetAdd(s, x) ==
  IF x \in Range(s) THEN s ELSE Append(s, x)

includes(text, tok) ==
  \E i \in 1..Len(text) : text[i] = tok

indexOf(text, tok) ==
  IF includes(text, tok)
  THEN CHOOSE i \in 1..Len(text) :
         /\ text[i] = tok
         /\ \A j \in 1..(i - 1) : text[j] # tok
  ELSE 0

\* replace that leaves the text as it is
replace_kept(text, tok) == text

replace(text, tok) ==
  LET i == indexOf(text, tok)
  IN  IF i = 0 THEN text
      ELSE SubSeq(text, 1, i - 1) \o SubSeq(text, i + 1, Len(text))

\* Substring tests on names: pat occurs in nm as a run of words.
matchesAt(nm, pat, i) ==
  /\ i >= 1
  /\ i + Len(pat) - 1 <= Len(nm)
  /\ SubSeq(nm, i, i + Len(pat) - 1) = pat

nameIncludes(nm, pat) ==
  \E i \in 1..(Len(nm) + 1) : matchesAt(nm, pat, i)

nameIndexOf(nm, pat) ==
  IF nameIncludes(nm, pat)
  THEN CHOOSE i \in 1..(Len(nm) + 1) :
         /\ matchesAt(nm, pat, i)
         /\ \A j \in 1..(i - 1) : ~matchesAt(nm, pat, j)
  ELSE 0

endsWith(nm, pat) ==
  matchesAt(nm, pat, Len(nm) - Len(pat) + 1)

nameReplace(nm, pat, by) ==
  LET i == nameIndexOf(nm, pat)
  IN  IF i = 0 THEN nm
      ELSE SubSeq(nm, 1, i - 1) \o by \o SubSeq(nm, i + Len(pat), Len(nm))

WhitespaceTokens == {" ", "  ", "   "}

RECURSIVE trimStart(_)
trimStart(text) ==
  IF text # <<>> /\ Head(text) \in WhitespaceTokens
  THEN trimStart(Tail(text))
  ELSE text

RECURSIVE trimEnd(_)
trimEnd(text) ==
  IF text # <<>> /\ text[Len(text)] \in WhitespaceTokens
  THEN trimEnd(SubSeq(text, 1, Len(text) - 1))
  ELSE text

trim(text) == trimEnd(trimStart(text))

RECURSIVE join(_, _)
join(items, sep) ==
  IF items = <<>> THEN <<>>
  ELSE IF Len(items) = 1 THEN items[1]
  ELSE items[1] \o <<sep>> \o join(Tail(items), sep)

toUpperCaseFirst(word) ==
  CASE word = "user" -> "User"
    [] word = "post" -> "Post"
    [] word = "findMany" -> "FindMany"
    [] OTHER -> word

-----------------------------------------------------------------------------
(* Metadata *)

ScalarTypes ==
  { <<"String">>, <<"Int">>, <<"Float">>, <<"Decimal">>, <<"BigInt">>,
    <<"Boolean">>, <<"DateTime">>, <<"Json">>, <<"True">>, <<"Bytes">> }

UnmappedScalarTypes == { <<"Null">> }

CompositeNames ==
  { <<"User", "Where", "Input">>, <<"Post", "Where", "Input">> }

FindManyArgs == <<"Find", "Many", "Args">>

ModelQueryTypeNames == { <<"Post">> \o FindManyArgs }

EnumTypeNames == { <<"Role">> }

NoNamespace == "undefined"

ScalarAlternatives ==
  [ type : ScalarTypes \cup UnmappedScalarTypes, isList : BOOLEAN,
    location : {"scalar"}, namespace : {NoNamespace} ]

\* Composite alternatives, and enum alternatives (one of them carrying the
\* name of the composite that hosts the field).
ReferenceAlternatives ==
  [ type : CompositeNames \cup ModelQueryTypeNames, isList : BOOLEAN,
    location : {"inputObjectTypes"}, namespace : {"prisma", "model"} ]
  \cup
  [ type : EnumTypeNames \cup { <<"User", "Where", "Input">> },
    isList : BOOLEAN,
    location : {"enumTypes"}, namespace : {"prisma", "model"} ]

Alternatives == ScalarAlternatives \cup ReferenceAlternatives

SeqsUpTo(S, n) == UNION { [1..k -> S] : k \in 0..n }

SchemaArgs(alts, n) ==
  [ name : {"data"}, isRequired : BOOLEAN, isNullable : BOOLEAN,
    inputTypes : SeqsUpTo(alts, n) ]

-----------------------------------------------------------------------------
(* Transformer: object schema fields *)

checkIsModelQueryType(type) ==
  IF nameIncludes(type, FindManyArgs)
  THEN [ isModelQueryType |-> TRUE,
         modelName |-> SubSeq(type, 1, nameIndexOf(type, FindManyArgs) - 1),
         queryName |-> "findMany" ]
  ELSE [ isModelQueryType |-> FALSE, modelName |-> <<>>, queryName |-> "" ]

\* the model name and the query name taken as they are
resolveModelQuerySchemaName_asIs(modelName, queryName) ==
  Str(modelName) \o queryName \o "Schema"

resolveModelQuerySchemaName(modelName, queryName) ==
  LET modelNameCapitalized ==
        IF modelName = <<>> THEN ""
        ELSE toUpperCaseFirst(Head(modelName)) \o Str(Tail(modelName))
      queryNameCapitalized == toUpperCaseFirst(queryName)
  IN  modelNameCapitalized \o queryNameCapitalized \o "Schema"

\* the optional wrapper put before the array wrapper
wrapWithZodValidators_optionalFirst(mainValidator, field, inputType) ==
  <<mainValidator>>
    \o (IF ~field.isRequired THEN <<".optional()">> ELSE <<>>)
    \o (IF inputType.isList THEN <<".array()">> ELSE <<>>)

wrapWithZodValidators(mainValidator, field, inputType) ==
  <<mainValidator>>
    \o (IF inputType.isList THEN <<".array()">> ELSE <<>>)
    \o (IF ~field.isRequired THEN <<".optional()">> ELSE <<>>)

\* the lazy binding kept for the self-reference only
needsLazyLoading_selfOnly(thisName, inputType) ==
  inputType.type = thisName

\* the self-reference test left out
needsLazyLoading_noSelf(thisName, inputType) ==
  inputType.location # "enumTypes" /\ inputType.namespace = "prisma"

needsLazyLoading(thisName, inputType) ==
  \/ inputType.type = thisName
  \/ (inputType.location # "enumTypes" /\ inputType.namespace = "prisma")

generatePrismaStringLine(thisName, field, inputType, inputsLength) ==
  LET isEnum == inputType.location = "enumTypes"
      q == checkIsModelQueryType(inputType.type)
      objectSchemaLine ==
        IF q.isModelQueryType
        THEN resolveModelQuerySchemaName(q.modelName, q.queryName)
        ELSE Str(inputType.type) \o "ObjectSchema"
      enumSchemaLine == Str(inputType.type) \o "Schema"
      schema ==
        IF inputType.type = thisName THEN objectSchemaLine
        ELSE IF isEnum THEN enumSchemaLine
        ELSE objectSchemaLine
      arr == IF inputType.isList THEN <<".array()">> ELSE <<>>
      opt == IF ~field.isRequired THEN <<".optional()">> ELSE <<>>
      prefix ==
        IF inputsLength = 1 THEN <<"  ", field.name, ":", " ">> ELSE <<>>
  IN  IF needsLazyLoading(thisName, inputType)
      THEN prefix \o <<"z.lazy(() => ", schema, ")">> \o arr \o opt
      ELSE prefix \o <<schema>> \o arr \o opt

\* every alternative kept
isPrismaOrEnum_always(inputType) == TRUE

\* The guard of the reference branch: the alternative is kept.
isPrismaOrEnum(inputType) ==
  inputType.namespace = "prisma" \/ inputType.location = "enumTypes"

\* the import added for the composite's own name too
reduceInputType_importsSelf(thisName, field, inputType, inputsLength, acc) ==
  LET push(main) ==
        [acc EXCEPT !.result =
           Append(@, wrapWithZodValidators(main, field, inputType))]
      t == inputType.type
  IN  IF t = <<"String">> THEN push("z.string()")
      ELSE IF t = <<"Int">> THEN push("z.number().int()")
      ELSE IF t = <<"Float">> \/ t = <<"Decimal">> THEN push("z.number()")
      ELSE IF t = <<"BigInt">> THEN push("z.bigint()")
      ELSE IF t = <<"Boolean">> THEN push("z.boolean()")
      ELSE IF t = <<"DateTime">> THEN push("z.coerce.date()")
      ELSE IF t = <<"Json">>
        THEN [push("jsonSchema") EXCEPT !.hasJson = TRUE]
      ELSE IF t = <<"True">> THEN push("z.literal(true)")
      ELSE IF t = <<"Bytes">> THEN push("z.instanceof(Uint8Array)")
      ELSE
        IF isPrismaOrEnum(inputType)
        THEN [ result |->
                 Append(acc.result,
                        generatePrismaStringLine(thisName, field,
                                                 inputType, inputsLength)),
               hasJson |-> acc.hasJson,
               schemaImports |-> SetAdd(acc.schemaImports, t) ]
        ELSE acc

\* One step of the reduce over field.inputTypes: acc is
\* [result, hasJson, schemaImports].
reduceInputType(thisName, field, inputType, inputsLength, acc) ==
  LET push(main) ==
        [acc EXCEPT !.result =
           Append(@, wrapWithZodValidators(main, field, inputType))]
      t == inputType.type
  IN  IF t = <<"String">> THEN push("z.string()")
      ELSE IF t = <<"Int">> THEN push("z.number().int()")
      ELSE IF t = <<"Float">> \/ t = <<"Decimal">> THEN push("z.number()")
      ELSE IF t = <<"BigInt">> THEN push("z.bigint()")
      ELSE IF t = <<"Boolean">> THEN push("z.boolean()")
      ELSE IF t = <<"DateTime">> THEN push("z.coerce.date()")
      ELSE IF t = <<"Json">>
        THEN [push("jsonSchema") EXCEPT !.hasJson = TRUE]
      ELSE IF t = <<"True">> THEN push("z.literal(true)")
      ELSE IF t = <<"Bytes">> THEN push("z.instanceof(Uint8Array)")
      ELSE
        IF isPrismaOrEnum(inputType)
        THEN [ result |->
                 Append(acc.result,
                        generatePrismaStringLine(thisName, field,
                                                 inputType, inputsLength)),
               hasJson |-> acc.hasJson,
               schemaImports |->
                 IF t # thisName
                 THEN SetAdd(acc.schemaImports, t)
                 ELSE acc.schemaImports ]
        ELSE acc

RECURSIVE reduceLines(_, _, _, _, _)
reduceLines(thisName, field, lines, i, acc) ==
  IF i > Len(lines) THEN acc
  ELSE reduceLines(thisName, field, lines, i + 1,
                   reduceInputType(thisName, field, lines[i], Len(lines), acc))

\* The tuple returned for a field: the text, the field, skipValidators.
fieldItem(field, alternatives) ==
  LET fieldName ==
        IF \E k \in 1..Len(alternatives) : includes(alternatives[k], ":")
        THEN <<>>
        ELSE <<"  ", field.name, ":">>
      opt == IF ~field.isRequired THEN <<".optional()">> ELSE <<>>
      resString ==
        (IF Len(alternatives) = 1
         THEN join(alternatives, ",\r\n")
         ELSE <<"z.union([">> \o join(alternatives, ",\r\n") \o <<"])">> \o opt)
        \o (IF field.isNullable THEN <<".nullable()">> ELSE <<>>)
  IN  [ text |-> <<"  ">> \o fieldName \o <<" ">> \o resString \o <<" ">>,
        field |-> field, skipValidators |-> TRUE ]

\* The part of generateObjectSchemaField after the reduce: red is the
\* reduce's [result, hasJson, schemaImports].
combineAlternatives(field, red) ==
  [ items |->
      IF Len(red.result) = 0 THEN <<>>
      ELSE IF Len(red.result) > 1
      THEN << fieldItem(field,
                [ k \in 1..Len(red.result) |->
                    replace(red.result[k], ".optional()") ]) >>
      ELSE << fieldItem(field, red.result) >>,
    hasJson |-> red.hasJson,
    schemaImports |-> red.schemaImports ]

\* st is the instance state [hasJson, schemaImports]; the value is
\* [items, hasJson, schemaImports], items being the returned tuples.
generateObjectSchemaField(thisName, field, st) ==
  IF Len(field.inputTypes) = 0
  THEN [ items |-> <<>>, hasJson |-> st.hasJson,
         schemaImports |-> st.schemaImports ]
  ELSE combineAlternatives(field,
         reduceLines(thisName, field, field.inputTypes, 1,
           [ result |-> <<>>, hasJson |-> st.hasJson,
             schemaImports |-> st.schemaImports ]))

generateFieldValidators(zodStringWithMainType, field) ==
  zodStringWithMainType
    \o (IF ~field.isRequired THEN <<".optional()">> ELSE <<>>)
    \o (IF field.isNullable THEN <<".nullable()">> ELSE <<>>)

\* The second map of generateObjectSchemaFields, on one field's tuples.
fieldValues(items) ==
  [ k \in 1..Len(items) |->
      trim(IF items[k].skipValidators THEN items[k].text
           ELSE generateFieldValidators(items[k].text, items[k].field)) ]

consLines(values, rest) ==
  [ lines |-> values \o rest.lines, hasJson |-> rest.hasJson,
    schemaImports |-> rest.schemaImports ]

\* The value is [lines, hasJson, schemaImports].
RECURSIVE generateObjectSchemaFields(_, _, _)
RECURSIVE generateRest(_, _, _)
generateRest(thisName, flds, one) ==
  consLines(fieldValues(one.items),
            generateObjectSchemaFields(thisName, flds,
              [ hasJson |-> one.hasJson,
                schemaImports |-> one.schemaImports ]))

generateObjectSchemaFields(thisName, flds, st) ==
  IF flds = <<>>
  THEN [ lines |-> <<>>, hasJson |-> st.hasJson,
         schemaImports |-> st.schemaImports ]
  ELSE generateRest(thisName, Tail(flds),
                    generateObjectSchemaField(thisName, Head(flds), st))

-----------------------------------------------------------------------------
(* Paths *)

RECURSIVE normalizeSegments(_, _)
normalizeSegments(segs, acc) ==
  IF segs = <<>> THEN acc
  ELSE LET h == Head(segs)
       IN  IF h = "." \/ h = "" THEN normalizeSegments(Tail(segs), acc)
           ELSE IF h = ".." /\ acc # <<>> /\ acc[Len(acc)] # ".."
           THEN normalizeSegments(Tail(segs), SubSeq(acc, 1, Len(acc) - 1))
           ELSE normalizeSegments(Tail(segs), Append(acc, h))

\* path.normalize keeps a trailing separator: it shows as a last segment "".
pathNormalize(p) ==
  LET core == normalizeSegments(p, <<>>)
      trailing == Len(p) > 1 /\ p[Len(p)] = ""
  IN  IF core = <<>> THEN <<".">>
      ELSE IF trailing THEN Append(core, "") ELSE core

pathJoin(a, b) == pathNormalize(a \o b)

RECURSIVE commonPrefixLen(_, _)
commonPrefixLen(a, b) ==
  IF a = <<>> \/ b = <<>> \/ Head(a) # Head(b) THEN 0
  ELSE 1 + commonPrefixLen(Tail(a), Tail(b))

pathRelative(from, to) ==
  LET f == normalizeSegments(from, <<>>)
      t == normalizeSegments(to, <<>>)
      c == commonPrefixLen(f, t)
  IN  [ i \in 1..(Len(f) - c) |-> ".." ] \o SubSeq(t, c + 1, Len(t))

RECURSIVE pathStr(_)
pathStr(segs) ==
  IF segs = <<>> THEN ""
  ELSE IF Len(segs) = 1 THEN segs[1]
  ELSE segs[1] \o "/" \o pathStr(Tail(segs))

getSchemasPath ==
  LET normalizedOutputPath == pathNormalize(outputPath)
      lastSegment == normalizedOutputPath[Len(normalizedOutputPath)]
  IN  IF lastSegment = "schemas" THEN outputPath
      ELSE pathJoin(outputPath, <<"schemas">>)

-----------------------------------------------------------------------------
(* Transformer: object schema unit *)

Undefined == "undefined"

generateImportZodStatement == <<"import { z } from 'zod';\n">>

generateExportSchemaStatement(exportName, schema) ==
  <<"export const ", exportName \o "Schema", " = ">> \o schema

isNewPrismaClientGenerator ==
  \/ prismaClientProvider = "prisma-client"
  \/ prismaClientConfig.moduleFormat # Undefined
  \/ prismaClientConfig.runtime # Undefined

getImportFileExtension ==
  IF /\ isNewPrismaClientGenerator
     /\ prismaClientConfig.moduleFormat = "esm"
     /\ prismaClientConfig.importFileExtension \notin {Undefined, ""}
  THEN "." \o prismaClientConfig.importFileExtension
  ELSE ""

\* the import written without the extension
generateImportStatement_noExtension(importName, importPath) ==
  <<"import { ", importName, " } from '", importPath, "'">>

generateImportStatement(importName, importPath) ==
  <<"import { ", importName, " } from '",
    importPath \o getImportFileExtension, "'">>

generateSchemaImports(imports) ==
  LET importExtension == getImportFileExtension
      one(nm) ==
        LET q == checkIsModelQueryType(nm)
        IN  IF q.isModelQueryType
            THEN <<"import { ",
                   resolveModelQuerySchemaName(q.modelName, q.queryName),
                   " } from '",
                   "../" \o q.queryName \o Str(q.modelName) \o ".schema"
                     \o importExtension,
                   "'">>
            ELSE IF nm \in Range(enumNames)
            THEN <<"import { ", Str(nm) \o "Schema", " } from '",
                   "../enums/" \o Str(nm) \o ".schema" \o importExtension,
                   "'">>
            ELSE <<"import { ", Str(nm) \o "ObjectSchema", " } from '",
                   "./" \o Str(nm) \o ".schema" \o importExtension, "'">>
  IN  join([ k \in 1..Len(imports) |-> one(imports[k]) ], ";\r\n")

generateObjectSchemaImportStatements(imports) ==
  generateImportZodStatement \o generateSchemaImports(imports) \o <<"\n\n">>

NoBasePath == <<>>

generateImportPrismaStatement(basePath) ==
  LET fromPath ==
        IF basePath # NoBasePath THEN basePath
        ELSE pathJoin(getSchemasPath, <<"objects">>)
      prismaClientImportPath ==
        IF isCustomPrismaClientOutputPath
        THEN pathRelative(fromPath, prismaClientOutputPath)
        ELSE prismaClientOutputPath
      n == Len(prismaClientImportPath)
      needsClientSuffix ==
        /\ isNewPrismaClientGenerator
        /\ isCustomPrismaClientOutputPath
        /\ ~(n >= 2 /\ prismaClientImportPath[n] = "client")
        /\ ~nameIncludes(prismaClientImportPath, <<"@prisma", "client">>)
      finalImportPath ==
        IF needsClientSuffix
        THEN pathStr(prismaClientImportPath) \o "/client"
        ELSE pathStr(prismaClientImportPath)
  IN  <<"import type { Prisma } from '", finalImportPath, "';\n\n">>

generateJsonSchemaImplementation(json) ==
  IF json
  THEN << "\n",
          "const literalSchema = z.union([z.string(), z.number(), z.boolean()]);\n",
          "const jsonSchema = z.lazy((): z.ZodType<Prisma.InputJsonValue> =>\n",
          "  z.union([literalSchema, z.array(jsonSchema.nullable()), z.record(z.string(), jsonSchema.nullable())])\n",
          ");\n\n" >>
  ELSE <<>>

wrapWithZodObject(zodStringFields) ==
  <<"z.object({", "\n", "  ">> \o join(zodStringFields, ",") \o <<"\n", "})">>

addFinalWrappers(zodStringFields) ==
  wrapWithZodObject(zodStringFields) \o <<".strict()">>

isMongodbRawOp(nm) ==
  \/ nameIncludes(nm, <<"Find", "Raw">>)
  \/ nameIncludes(nm, <<"Aggregate", "Raw">>)

isAggregateInputType(nm) ==
  \E kind \in {"Count", "Sum", "Avg", "Min", "Max"} :
    endsWith(nm, <<kind, "Aggregate", "Input">>)

ProviderPrefixes == {"MySQL", "PostgreSQL", "MongoDB", "SQLite", "SQLServer"}

builtInTypes ==
  { <<"Json", "Null", "Value", "Filter">>,
    <<"Json", "Null", "Value", "Input">>,
    <<"Nullable", "Json", "Null", "Value", "Input">>,
    <<"Sort", "Order">>, <<"Nulls", "Order">>, <<"Query", "Mode">>,
    <<"Transaction", "Isolation", "Level">> }

basicTypes ==
  { <<"Filter">>, <<"Select">>, <<"Include">>, <<"Where", "Input">>,
    <<"Order", "By", "With", "Relation", "Input">>,
    <<"Where", "Unique", "Input">>, <<"Create", "Input">>,
    <<"Update", "Input">>, <<"Unchecked", "Create", "Input">>,
    <<"Unchecked", "Update", "Input">>, <<"Input", "Envelope">>,
    <<"Operations", "Input">>, <<"Aggregates", "Input">>,
    <<"With", "Aggregation", "Input">>, <<"Input", "Type">> }

isPrismaTypeAvailable(nm) ==
  LET nameWithoutProvider ==
        IF nm # <<>> /\ Head(nm) \in ProviderPrefixes THEN Tail(nm) ELSE nm
  IN  \/ endsWith(nm, <<"Scalar", "Field", "Enum">>)
      \/ endsWith(nm, <<"Order", "By", "Relevance", "Field", "Enum">>)
      \/ nm \in builtInTypes
      \/ \E type \in basicTypes : endsWith(nameWithoutProvider, type)

hasComplexRelations(thisName, flds) ==
  \E i \in 1..Len(flds) :
    \E j \in 1..Len(flds[i].inputTypes) :
      LET inputType == flds[i].inputTypes[j]
      IN  /\ inputType.location # "enumTypes"
          /\ inputType.namespace = "prisma"
          /\ inputType.type # thisName
          /\ \/ nameIncludes(inputType.type, <<"Create", "Nested", "One", "Without">>)
             \/ nameIncludes(inputType.type, <<"Create", "Nested", "Many", "Without">>)
             \/ nameIncludes(inputType.type, <<"Where", "Unique", "Input">>)
             \/ nameIncludes(inputType.type, <<"Create", "Without">>)
             \/ nameIncludes(inputType.type, <<"Unchecked", "Create", "Without">>)

\* The raw-operation remap of a name; rawOpsMap is a function on the raw
\* operation names.
remapRawOp(nm) == nameReplace(rawOpsMap[nm], <<"Args">>, <<>>)

\* the strictness of the object left out with the annotation
generateExportObjectSchemaStatement_looseWhenUnavailable(thisName, flds, schema) ==
  LET raw == provider = "mongodb" /\ isMongodbRawOp(thisName)
      name0 == IF raw THEN rawOpsMap[thisName] ELSE thisName
      exportName == IF raw THEN remapRawOp(thisName) ELSE thisName
      name1 == IF isAggregateInputType(name0) THEN name0 \o <<"Type">> ELSE name0
      end == <<"export const ", Str(exportName) \o "ObjectSchema", " = Schema">>
  IN  IF isPrismaTypeAvailable(name1) \/ hasComplexRelations(thisName, flds)
      THEN <<"const Schema", ": z.ZodType<Prisma.", Str(name1), ">", " = ">>
             \o schema \o <<";\n\n ">> \o end
      ELSE <<"const Schema", " = ">>
             \o SelectSeq(schema, LAMBDA tok : tok # ".strict()")
             \o <<";\n\n ">> \o end

generateExportObjectSchemaStatement(thisName, flds, schema) ==
  LET raw == provider = "mongodb" /\ isMongodbRawOp(thisName)
      name0 == IF raw THEN rawOpsMap[thisName] ELSE thisName
      exportName == IF raw THEN remapRawOp(thisName) ELSE thisName
      name1 == IF isAggregateInputType(name0) THEN name0 \o <<"Type">> ELSE name0
      end == <<"export const ", Str(exportName) \o "ObjectSchema", " = Schema">>
  IN  IF isPrismaTypeAvailable(name1) \/ hasComplexRelations(thisName, flds)
      THEN <<"const Schema", ": z.ZodType<Prisma.", Str(name1), ">", " = ">>
             \o schema \o <<";\n\n ">> \o end
      ELSE <<"const Schema", " = ">> \o schema \o <<";\n\n ">> \o end

prepareObjectSchema(thisName, flds, zodFields, st) ==
  LET objectSchema ==
        generateExportObjectSchemaStatement(thisName, flds,
                                            addFinalWrappers(zodFields))
          \o <<"\n">>
      prismaImportStatement == generateImportPrismaStatement(NoBasePath)
      json == generateJsonSchemaImplementation(st.hasJson)
  IN  generateObjectSchemaImportStatements(st.schemaImports)
        \o prismaImportStatement \o json \o objectSchema

resolveObjectSchemaName(thisName) ==
  IF isMongodbRawOp(thisName) THEN remapRawOp(thisName) ELSE thisName

objectSchemaPath(thisName) ==
  pathJoin(getSchemasPath,
           <<"objects", Str(resolveObjectSchemaName(thisName)) \o ".schema.ts">>)

writeFileSafely(fs, path, text) ==
  [ p \in DOMAIN fs \cup {path} |-> IF p = path THEN text ELSE fs[p] ]

\* The write of generateObjectSchema: gen is the value of
\* generateObjectSchemaFields.
writeObjectSchema(gen) ==
  /\ zodObjectSchemaFields' = gen.lines
  /\ hasJson' = gen.hasJson
  /\ schemaImports' = gen.schemaImports
  /\ files' = writeFileSafely(files, objectSchemaPath(name),
                prepareObjectSchema(name, fields, gen.lines,
                  [ hasJson |-> gen.hasJson,
                    schemaImports |-> gen.schemaImports ]))

\* The raw-operation table has no entry for a name that isMongodbRawOp
\* accepts: Transformer.rawOpsMap[name] is undefined and name.replace
\* throws, in generateExportObjectSchemaStatement under mongodb and in
\* resolveObjectSchemaName under every provider.
rawOpUndefined(thisName) ==
  isMongodbRawOp(thisName) /\ thisName \notin DOMAIN rawOpsMap

\* generateObjectSchema up to the throw: the fields have been generated,
\* nothing is written.
throwObjectSchema(gen) ==
  /\ zodObjectSchemaFields' = gen.lines
  /\ hasJson' = gen.hasJson
  /\ schemaImports' = gen.schemaImports
  /\ files' = files

objectSchemaStep(gen) ==
  IF rawOpUndefined(name)
  THEN throwObjectSchema(gen) /\ pc' = "failed"
  ELSE writeObjectSchema(gen) /\ pc' = "written"

\* generateObjectSchema of the object transformer: the fields, the text and
\* the write of the unit.
GenerateObjectSchema ==
  /\ pc = "object"
  /\ objectSchemaStep(
       generateObjectSchemaFields(name, fields,
         [ hasJson |-> hasJson, schemaImports |-> schemaImports ]))
  /\ UNCHANGED <<staticVars, modelVars, inputObjectTypes, runVars, unitVars,
                 name, fields>>

-----------------------------------------------------------------------------
(* Transformer: operation schema units *)

Operations ==
  << "findUnique", "findFirst", "findMany", "createOne", "createMany",
     "deleteOne", "deleteMany", "updateOne", "updateMany", "upsertOne",
     "aggregate", "groupBy" >>

checkIsModelRelationField(modelField) ==
  modelField.kind = "object" /\ modelField.relationName # Undefined

checkModelHasModelRelation(model) ==
  \E i \in 1..Len(model.fields) : checkIsModelRelationField(model.fields[i])

checkModelHasManyModelRelation(model) ==
  \E i \in 1..Len(model.fields) :
    checkIsModelRelationField(model.fields[i]) /\ model.fields[i].isList

\* the first model of the list standing in for a model that is not found
findModelByName_first(mods, modelName) ==
  IF \E i \in 1..Len(mods) : mods[i].name = modelName
  THEN CHOOSE i \in 1..Len(mods) :
         /\ mods[i].name = modelName
         /\ \A j \in 1..(i - 1) : mods[j].name # modelName
  ELSE 1

\* The value is the model's index in the list, 0 when there is none.
findModelByName(mods, modelName) ==
  IF \E i \in 1..Len(mods) : mods[i].name = modelName
  THEN CHOOSE i \in 1..Len(mods) :
         /\ mods[i].name = modelName
         /\ \A j \in 1..(i - 1) : mods[j].name # modelName
  ELSE 0

objectImport(M, type) ==
  generateImportStatement(M \o type \o "ObjectSchema",
                          "./objects/" \o M \o type \o ".schema")

enumImport(M, type) ==
  generateImportStatement(M \o type \o "Schema",
                          "./enums/" \o M \o type \o ".schema")

generateImportStatements(imports) ==
  generateImportZodStatement
    \o join(SelectSeq(imports, LAMBDA importItem : importItem # <<>>), ";\r\n")
    \o <<"\n\n">>

selectLines(M) ==
  [ selectImport |-> objectImport(M, "Select"),
    selectZodSchemaLine |->
      <<"select", ": ", M \o "SelectObjectSchema", ".optional()", ",">>,
    selectZodSchemaLineLazy |->
      <<"select", ": ", "z.lazy((): z.ZodType<Prisma.", M \o "Select",
        " | undefined> => ", M \o "SelectObjectSchema", ".optional()", ")",
        ".optional()", ",">> ]

includeLines(M) ==
  [ includeImport |-> objectImport(M, "Include"),
    includeZodSchemaLine |->
      <<"include", ": ", M \o "IncludeObjectSchema", ".optional()", ",">>,
    includeZodSchemaLineLazy |->
      <<"include", ": ", "z.lazy((): z.ZodType<Prisma.", M \o "Include",
        " | undefined> => ", M \o "IncludeObjectSchema", ".optional()", ")",
        ".optional()", ",">> ]

noSelectLines ==
  [ selectImport |-> <<>>, selectZodSchemaLine |-> <<>>,
    selectZodSchemaLineLazy |-> <<>> ]

noIncludeLines ==
  [ includeImport |-> <<>>, includeZodSchemaLine |-> <<>>,
    includeZodSchemaLineLazy |-> <<>> ]

\* the include fragment given whether or not the model has a relation
resolveSelectIncludeImportAndZodSchemaLine_noRelationTest(model) ==
  [ select |->
      IF isGenerateSelect THEN selectLines(Str(model.name)) ELSE noSelectLines,
    include |->
      IF isGenerateInclude
      THEN includeLines(Str(model.name)) ELSE noIncludeLines,
    prismaImport |->
      IF isGenerateSelect \/ isGenerateInclude
      THEN generateImportPrismaStatement(getSchemasPath)
      ELSE <<>> ]

resolveSelectIncludeImportAndZodSchemaLine(model) ==
  [ select |->
      IF isGenerateSelect THEN selectLines(Str(model.name)) ELSE noSelectLines,
    include |->
      IF isGenerateInclude /\ checkModelHasModelRelation(model)
      THEN includeLines(Str(model.name)) ELSE noIncludeLines,
    prismaImport |->
      IF \/ isGenerateSelect
         \/ (isGenerateInclude /\ checkModelHasModelRelation(model))
      THEN generateImportPrismaStatement(getSchemasPath)
      ELSE <<>> ]

orderByLines(modelOrderBy) ==
  [ orderByImport |->
      generateImportStatement(modelOrderBy \o "ObjectSchema",
                              "./objects/" \o modelOrderBy \o ".schema"),
    orderByZodSchemaLine |->
      <<"orderBy", ": ", "z.union([", modelOrderBy \o "ObjectSchema", ", ",
        modelOrderBy \o "ObjectSchema", ".array()", "])", ".optional()", ",">> ]

\* the relevance-aware type chosen under every provider
resolveOrderByWithRelationImportAndZodSchemaLine_anyProvider(model) ==
  IF /\ previewFeatures # Undefined
     /\ "fullTextSearch" \in Range(previewFeatures)
  THEN orderByLines(Str(model.name)
                      \o "OrderByWithRelationAndSearchRelevanceInput")
  ELSE orderByLines(Str(model.name) \o "OrderByWithRelationInput")

resolveOrderByWithRelationImportAndZodSchemaLine(model) ==
  IF /\ provider \in {"postgresql", "mysql"}
     /\ previewFeatures # Undefined
     /\ "fullTextSearch" \in Range(previewFeatures)
  THEN orderByLines(Str(model.name)
                      \o "OrderByWithRelationAndSearchRelevanceInput")
  ELSE orderByLines(Str(model.name) \o "OrderByWithRelationInput")

aggregateKinds ==
  << <<"count", "Count">>, <<"min", "Min">>, <<"max", "Max">>,
     <<"avg", "Avg">>, <<"sum", "Sum">> >>

\* The imports and the fragments pushed for the supported aggregate kinds.
aggregateImports(M, support) ==
  LET on == SelectSeq(aggregateKinds, LAMBDA kind : support[kind[1]])
  IN  [ k \in 1..Len(on) |-> objectImport(M, on[k][2] \o "AggregateInput") ]

\* the fragment of every kind, whatever the flags
aggregateOperations_allKinds(M, support) ==
  [ k \in 1..Len(aggregateKinds) |->
      <<"_" \o aggregateKinds[k][1], ": ",
        M \o aggregateKinds[k][2] \o "AggregateInputObjectSchema",
        ".optional()">> ]

aggregateOperations(M, support) ==
  LET on == SelectSeq(aggregateKinds, LAMBDA kind : support[kind[1]])
  IN  [ k \in 1..Len(on) |->
          <<"_" \o on[k][1], ": ",
            M \o on[k][2] \o "AggregateInputObjectSchema", ".optional()">> ]

optionalKey(key, schema) == <<key, ": ", schema, ".optional()">>

paging(M) ==
  optionalKey("where", M \o "WhereInputObjectSchema") \o <<", ">>
    \o optionalKey("cursor", M \o "WhereUniqueInputObjectSchema") \o <<", ">>
    \o optionalKey("take", "z.number()") \o <<", ">>
    \o optionalKey("skip", "z.number()") \o <<", ">>

distinctKey(M) ==
  <<"distinct", ": ", "z.array(", M \o "ScalarFieldEnumSchema", ")",
    ".optional()">>

union2(open, a, b, close) == <<open, a, ", ", b, close>>

\* the flag given to every provider but sqlite and mongodb
skipDuplicatesFragment_sqlProviders ==
  IF provider # "sqlite" /\ provider # "mongodb"
  THEN <<"skipDuplicates", ": ", "z.boolean()", ".optional()">>
  ELSE <<>>

skipDuplicatesFragment ==
  IF provider = "postgresql" \/ provider = "cockroachdb"
  THEN <<"skipDuplicates", ": ", "z.boolean()", ".optional()">>
  ELSE <<>>

\* The imports of the unit of one operation: si and ob are the values of
\* resolveSelectIncludeImportAndZodSchemaLine and
\* resolveOrderByWithRelationImportAndZodSchemaLine, support the model's
\* aggregate flags.
operationImports(op, M, si, ob, support) ==
  LET head == << si.select.selectImport, si.include.includeImport,
                 si.prismaImport >>
  IN  CASE op = "findUnique" ->
             head \o << objectImport(M, "WhereUniqueInput") >>
        [] op \in {"findFirst", "findMany"} ->
             head \o << ob.orderByImport, objectImport(M, "WhereInput"),
                        objectImport(M, "WhereUniqueInput"),
                        enumImport(M, "ScalarFieldEnum") >>
        [] op = "createOne" ->
             head \o << objectImport(M, "CreateInput"),
                        objectImport(M, "UncheckedCreateInput") >>
        [] op = "createMany" -> << objectImport(M, "CreateManyInput") >>
        [] op = "deleteOne" ->
             head \o << objectImport(M, "WhereUniqueInput") >>
        [] op = "deleteMany" -> << objectImport(M, "WhereInput") >>
        [] op = "updateOne" ->
             head \o << objectImport(M, "UpdateInput"),
                        objectImport(M, "UncheckedUpdateInput"),
                        objectImport(M, "WhereUniqueInput") >>
        [] op = "updateMany" ->
             << objectImport(M, "UpdateManyMutationInput"),
                objectImport(M, "WhereInput") >>
        [] op = "upsertOne" ->
             head \o << objectImport(M, "WhereUniqueInput"),
                        objectImport(M, "CreateInput"),
                        objectImport(M, "UncheckedCreateInput"),
                        objectImport(M, "UpdateInput"),
                        objectImport(M, "UncheckedUpdateInput") >>
        [] op = "aggregate" ->
             << ob.orderByImport, objectImport(M, "WhereInput"),
                objectImport(M, "WhereUniqueInput") >>
               \o aggregateImports(M, support)
        [] op = "groupBy" ->
             << objectImport(M, "WhereInput"),
                objectImport(M, "OrderByWithAggregationInput"),
                objectImport(M, "ScalarWhereWithAggregatesInput"),
                enumImport(M, "ScalarFieldEnum") >>

\* The validator object of the unit of one operation.
operationSchema(op, M, si, ob, support) ==
  LET sel == si.select.selectZodSchemaLine \o <<" ">>
               \o si.include.includeZodSchemaLine \o <<" ">>
      selLazy == si.select.selectZodSchemaLineLazy \o <<" ">>
                   \o si.include.includeZodSchemaLineLazy \o <<" ">>
      whereUnique == <<"where", ": ", M \o "WhereUniqueInputObjectSchema">>
      createUnion(open, close) ==
        union2(open, M \o "CreateInputObjectSchema",
               M \o "UncheckedCreateInputObjectSchema", close)
      updateUnion(open, close) ==
        union2(open, M \o "UpdateInputObjectSchema",
               M \o "UncheckedUpdateInputObjectSchema", close)
  IN  CASE op = "findUnique" ->
             <<"z.object({ ">> \o sel \o whereUnique \o <<" })">>
        [] op = "findFirst" ->
             <<"z.object({ ">> \o sel \o ob.orderByZodSchemaLine \o <<" ">>
               \o paging(M) \o distinctKey(M) \o <<" })">>
        [] op = "findMany" ->
             <<"z.object({ ">> \o selLazy \o ob.orderByZodSchemaLine \o <<" ">>
               \o paging(M) \o distinctKey(M) \o <<"  })">>
        [] op = "createOne" ->
             <<"z.object({ ">> \o sel \o <<"data", ": ">>
               \o createUnion("z.union([", "])") \o <<"  })">>
        [] op = "createMany" ->
             <<"z.object({ ", "data", ": ", "z.union([ ",
               M \o "CreateManyInputObjectSchema", ", ", "z.array(",
               M \o "CreateManyInputObjectSchema", ")", " ])", ", ">>
               \o skipDuplicatesFragment \o <<" })">>
        [] op = "deleteOne" ->
             <<"z.object({ ">> \o sel \o whereUnique \o <<"  })">>
        [] op = "deleteMany" ->
             <<"z.object({ ">>
               \o optionalKey("where", M \o "WhereInputObjectSchema")
               \o <<"  })">>
        [] op = "updateOne" ->
             <<"z.object({ ">> \o sel \o <<"data", ": ">>
               \o updateUnion("z.union([", "])") \o <<", ">> \o whereUnique
               \o <<"  })">>
        [] op = "updateMany" ->
             <<"z.object({ ", "data", ": ",
               M \o "UpdateManyMutationInputObjectSchema", ", ">>
               \o optionalKey("where", M \o "WhereInputObjectSchema")
               \o <<"  })">>
        [] op = "upsertOne" ->
             <<"z.object({ ">> \o sel \o whereUnique
               \o <<", ", "create", ": ">> \o createUnion("z.union([ ", " ])")
               \o <<", ", "update", ": ">> \o updateUnion("z.union([ ", " ])")
               \o <<"  })">>
        [] op = "aggregate" ->
             <<"z.object({ ">> \o ob.orderByZodSchemaLine \o <<" ">>
               \o paging(M) \o join(aggregateOperations(M, support), ", ")
               \o <<" })">>
        [] op = "groupBy" ->
             <<"z.object({ ">>
               \o optionalKey("where", M \o "WhereInputObjectSchema")
               \o <<", ", "orderBy", ": ", "z.union([",
                    M \o "OrderByWithAggregationInputObjectSchema", ", ",
                    M \o "OrderByWithAggregationInputObjectSchema", ".array()",
                    "])", ", ">>
               \o optionalKey("having",
                              M \o "ScalarWhereWithAggregatesInputObjectSchema")
               \o <<", ">> \o optionalKey("take", "z.number()") \o <<", ">>
               \o optionalKey("skip", "z.number()")
               \o <<", ", "by", ": ", "z.array(", M \o "ScalarFieldEnumSchema",
                    ")", "  })">>

\* The name under which the unit of an operation is exported, less "Schema".
operationExportName(op, M) ==
  M \o (CASE op = "findUnique" -> "FindUnique"
          [] op = "findFirst" -> "FindFirst"
          [] op = "findMany" -> "FindMany"
          [] op = "createOne" -> "CreateOne"
          [] op = "createMany" -> "CreateMany"
          [] op = "deleteOne" -> "DeleteOne"
          [] op = "deleteMany" -> "DeleteMany"
          [] op = "updateOne" -> "UpdateOne"
          [] op = "updateMany" -> "UpdateMany"
          [] op = "upsertOne" -> "Upsert"
          [] op = "aggregate" -> "Aggregate"
          [] op = "groupBy" -> "GroupBy")

\* the unit written beside the schemas directory
operationPath_outputRoot(value) ==
  pathJoin(outputPath, << value \o ".schema.ts" >>)

\* The path of the unit of an operation: value is the mapping's entry.
operationPath(value) ==
  pathJoin(getSchemasPath, << value \o ".schema.ts" >>)

operationUnit(op, M, si, ob, support) ==
  generateImportStatements(operationImports(op, M, si, ob, support))
    \o generateExportSchemaStatement(operationExportName(op, M),
                                     operationSchema(op, M, si, ob, support))

NoSupport == [ count |-> FALSE, min |-> FALSE, max |-> FALSE,
               avg |-> FALSE, sum |-> FALSE ]

nextCursor ==
  IF cursor.op < Len(Operations)
  THEN [ cursor EXCEPT !.op = @ + 1 ]
  ELSE [ m |-> cursor.m + 1, op |-> 1 ]

\* createMany tested on the entry of createOne
isPresent_createOneForCreateMany(modelOperation, op) ==
  modelOperation[IF op = "createMany" THEN "createOne" ELSE op] # Undefined

\* The test of a block: the mapping has an entry for the operation.
isPresent(modelOperation, op) == modelOperation[op] # Undefined

\* operationBlock discarding the units written so far when a block fails
operationBlock_discardOnFailure(modelOperation, op, i) ==
  IF i = 0
  THEN /\ pc' = "failed"
       /\ files' = <<>>
       /\ UNCHANGED cursor
  ELSE IF ~isPresent(modelOperation, op)
  THEN /\ pc' = IF nextCursor.m > Len(modelOperations)
                THEN "generated" ELSE "models"
       /\ cursor' = nextCursor
       /\ UNCHANGED files
  ELSE IF /\ op = "aggregate"
          /\ modelOperation.model \notin DOMAIN aggregateOperationSupport
  THEN /\ pc' = "failed"
       /\ files' = <<>>
       /\ UNCHANGED cursor
  ELSE /\ pc' = IF nextCursor.m > Len(modelOperations)
                THEN "generated" ELSE "models"
       /\ cursor' = nextCursor
       /\ files' =
            writeFileSafely(files, operationPath(modelOperation[op]),
              operationUnit(op, Str(modelOperation.model),
                resolveSelectIncludeImportAndZodSchemaLine(models[i]),
                resolveOrderByWithRelationImportAndZodSchemaLine(models[i]),
                IF op = "aggregate"
                THEN aggregateOperationSupport[modelOperation.model]
                ELSE NoSupport))

\* The block of one operation of the current mapping: modelOperation is the
\* mapping, op the operation, i the index of the mapping's model.
operationBlock(modelOperation, op, i) ==
  IF i = 0
  THEN /\ pc' = "failed"
       /\ UNCHANGED <<files, cursor>>
  ELSE IF ~isPresent(modelOperation, op)
  THEN /\ pc' = IF nextCursor.m > Len(modelOperations)
                THEN "generated" ELSE "models"
       /\ cursor' = nextCursor
       /\ UNCHANGED files
  ELSE IF /\ op = "aggregate"
          /\ modelOperation.model \notin DOMAIN aggregateOperationSupport
  THEN /\ pc' = "failed"
       /\ UNCHANGED <<files, cursor>>
  ELSE /\ pc' = IF nextCursor.m > Len(modelOperations)
                THEN "generated" ELSE "models"
       /\ cursor' = nextCursor
       /\ files' =
            writeFileSafely(files, operationPath(modelOperation[op]),
              operationUnit(op, Str(modelOperation.model),
                resolveSelectIncludeImportAndZodSchemaLine(models[i]),
                resolveOrderByWithRelationImportAndZodSchemaLine(models[i]),
                IF op = "aggregate"
                THEN aggregateOperationSupport[modelOperation.model]
                ELSE NoSupport))

\* generateModelSchemas, from one await of writeFileSafely to the next: the
\* block of the operation the cursor is at.
GenerateModelSchemas ==
  /\ pc = "models"
  /\ operationBlock(modelOperations[cursor.m], Operations[cursor.op],
                    findModelByName(models, modelOperations[cursor.m].model))
  /\ UNCHANGED <<staticVars, objectVars, models, modelOperations,
                 aggregateOperationSupport, inputObjectTypes, runVars,
                 unitVars>>

-----------------------------------------------------------------------------
(* Initial states *)

NoFiles == <<>>

DefaultConfig ==
  [ moduleFormat |-> Undefined, runtime |-> Undefined,
    importFileExtension |-> Undefined ]

\* The static fields as their initialisers leave them, with the registries
\* the generator fills in before the first unit.
InitStatic ==
  /\ enumNames = << <<"Role">> >>
  /\ rawOpsMap = <<>>
  /\ provider = "postgresql"
  /\ previewFeatures = Undefined
  /\ outputPath = <<".", "generated">>
  /\ prismaClientOutputPath = <<"@prisma", "client">>
  /\ isCustomPrismaClientOutputPath = FALSE
  /\ prismaClientProvider = "prisma-client-js"
  /\ prismaClientConfig = DefaultConfig
  /\ isGenerateSelect = FALSE
  /\ isGenerateInclude = FALSE

InitObject(names, fieldLists) ==
  /\ name \in names
  /\ fields \in fieldLists
  /\ schemaImports = <<>>
  /\ hasJson = FALSE
  /\ zodObjectSchemaFields = <<>>

FirstRun ==
  /\ run = 1
  /\ previous = NoFiles

NoIndex == [ written |-> FALSE, path |-> <<>>, exports |-> {} ]

\* No enum transformer, no index unit, no transformers side by side.
NoUnits ==
  /\ enumTypes = <<>>
  /\ index = NoIndex
  /\ instances = <<>>

NoModels ==
  /\ models = <<>>
  /\ modelOperations = <<>>
  /\ aggregateOperationSupport = <<>>
  /\ cursor = [ m |-> 1, op |-> 1 ]
  /\ inputObjectTypes = <<>>

-----------------------------------------------------------------------------
(* SpecField: the object schema of a composite with one field, the field   *)
(* drawn from every combination of at most MaxAlts alternatives            *)

InitField ==
  /\ InitStatic
  /\ InitObject({ <<"User", "Where", "Input">> },
                { <<f>> : f \in SchemaArgs(Alternatives, MaxAlts) })
  /\ NoModels
  /\ FirstRun
  /\ NoUnits
  /\ pc = "object"
  /\ files = NoFiles

NextField == GenerateObjectSchema

SpecField == InitField /\ [][NextField]_vars

-----------------------------------------------------------------------------
(* SpecObject: the object schema of a composite with up to MaxFields       *)
(* fields, each with zero, one or two alternatives of a sample: a scalar   *)
(* that needs the JSON helper, an unmapped scalar, an enum, a composite    *)
(* and the composite itself                                                *)

FieldNames == <<"id", "data", "role", "rest", "more">>

SampleAlternatives ==
  { [ type |-> <<"Json">>, isList |-> FALSE, location |-> "scalar",
      namespace |-> NoNamespace ],
    [ type |-> <<"Null">>, isList |-> FALSE, location |-> "scalar",
      namespace |-> NoNamespace ],
    [ type |-> <<"Role">>, isList |-> FALSE, location |-> "enumTypes",
      namespace |-> "model" ],
    [ type |-> <<"Post", "Where", "Input">>, isList |-> FALSE,
      location |-> "inputObjectTypes", namespace |-> "prisma" ],
    [ type |-> <<"User", "Where", "Input">>, isList |-> TRUE,
      location |-> "inputObjectTypes", namespace |-> "prisma" ] }

SampleInputTypes ==
  {<<>>} \cup { <<a>> : a \in SampleAlternatives }
         \cup { <<a, b>> : a \in SampleAlternatives, b \in SampleAlternatives }

SampleFields(i) ==
  [ name : {FieldNames[i]}, isRequired : BOOLEAN, isNullable : {FALSE},
    inputTypes : SampleInputTypes ]

SampleFieldLists ==
  UNION { { fl \in [1..k -> UNION { SampleFields(i) : i \in 1..k }] :
              \A i \in 1..k : fl[i].name = FieldNames[i] } :
          k \in 0..MaxFields }

InitObjectUnit ==
  /\ InitStatic
  /\ InitObject({ <<"User", "Where", "Input">> }, SampleFieldLists)
  /\ NoModels
  /\ FirstRun
  /\ NoUnits
  /\ pc = "object"
  /\ files = NoFiles

NextObject == GenerateObjectSchema

SpecObject == InitObjectUnit /\ [][NextObject]_vars

-----------------------------------------------------------------------------
(* Metadata of the model transformer *)

scalarField(fieldName) ==
  [ name |-> fieldName, kind |-> "scalar", relationName |-> Undefined,
    isList |-> FALSE, type |-> <<"Int">> ]

relationField(fieldName, target, list) ==
  [ name |-> fieldName, kind |-> "object",
    relationName |-> "PostToUser", isList |-> list, type |-> target ]

UserModel ==
  [ name |-> <<"User">>,
    fields |-> << scalarField("id"), relationField("posts", <<"Post">>, TRUE) >> ]

PostModel ==
  [ name |-> <<"Post">>,
    fields |-> << scalarField("id"), relationField("author", <<"User">>, FALSE) >> ]

TagModel ==
  [ name |-> <<"Tag">>, fields |-> << scalarField("id") >> ]

SampleModels == { UserModel, PostModel, TagModel }

\* Lists of distinct models, at most n of them.
ModelLists(n) ==
  UNION { { ms \in [1..k -> SampleModels] :
              \A i, j \in 1..k : i # j => ms[i] # ms[j] } :
          k \in 1..n }

OperationNames == Range(Operations)

\* The mapping of a model: an operation of present is named <operation><Model>,
\* any other is undefined.
Mapping(modelName, present) ==
  [ key \in {"model"} \cup OperationNames |->
      IF key = "model" THEN modelName
      ELSE IF key \in present THEN key \o Str(modelName)
      ELSE Undefined ]

\* Every operation alone, none, all, and all but one.
OperationSets ==
  { {} } \cup { {op} : op \in OperationNames }
         \cup { OperationNames \ {op} : op \in OperationNames }
         \cup { OperationNames }

\* The sets of the other mappings when one mapping is drawn from
\* OperationSets.
RestOperationSets == { {}, OperationNames }

\* The mappings of a list of models: the mapping of model one has the set
\* of operations set, the mapping of any other model the set rest gives it.
MappingList(mods, one, set, rest) ==
  [ i \in 1..Len(mods) |->
      Mapping(mods[i].name, IF i = one THEN set ELSE rest[i]) ]

AllSupport == [ count |-> TRUE, min |-> TRUE, max |-> TRUE,
                avg |-> TRUE, sum |-> TRUE ]

Supports == [ count : BOOLEAN, min : BOOLEAN, max : BOOLEAN,
              avg : BOOLEAN, sum : BOOLEAN ]

Providers ==
  { "mysql", "mongodb", "sqlite", "postgresql", "postgres", "sqlserver",
    "cockroachdb" }

PreviewFeatureSets == { Undefined, <<>>, <<"fullTextSearch">> }

NoObject ==
  /\ name = <<>>
  /\ fields = <<>>
  /\ schemaImports = <<>>
  /\ hasJson = FALSE
  /\ zodObjectSchemaFields = <<>>

-----------------------------------------------------------------------------
(* SpecOperations: generateModelSchemas on up to MaxModels models, every   *)
(* model with its mapping, one mapping drawn from OperationSets            *)

InitOperations ==
  /\ InitStatic
  /\ NoObject
  /\ models \in ModelLists(MaxModels)
  /\ \E one \in 1..Len(models) :
       \E set \in OperationSets :
         \E rest \in [1..Len(models) -> RestOperationSets] :
           modelOperations = MappingList(models, one, set, rest)
  /\ aggregateOperationSupport =
       [ n \in { models[i].name : i \in 1..Len(models) } |-> AllSupport ]
  /\ cursor = [ m |-> 1, op |-> 1 ]
  /\ inputObjectTypes = <<>>
  /\ FirstRun
  /\ NoUnits
  /\ pc = "models"
  /\ files = NoFiles

NextOperations == GenerateModelSchemas

SpecOperations == InitOperations /\ [][NextOperations]_vars

-----------------------------------------------------------------------------
(* SpecContext: generateModelSchemas on one model with every operation,    *)
(* under every provider, preview feature set, select and include toggle    *)
(* and aggregate support                                                   *)

InitContext ==
  /\ enumNames = << <<"Role">> >>
  /\ rawOpsMap = <<>>
  /\ provider \in Providers
  /\ previewFeatures \in PreviewFeatureSets
  /\ outputPath = <<".", "generated">>
  /\ prismaClientOutputPath = <<"@prisma", "client">>
  /\ isCustomPrismaClientOutputPath = FALSE
  /\ prismaClientProvider = "prisma-client-js"
  /\ prismaClientConfig = DefaultConfig
  /\ isGenerateSelect \in BOOLEAN
  /\ isGenerateInclude \in BOOLEAN
  /\ NoObject
  /\ models \in { <<UserModel>>, <<TagModel>> }
  /\ modelOperations = << Mapping(models[1].name, OperationNames) >>
  /\ aggregateOperationSupport \in [ { models[1].name } -> Supports ]
  /\ cursor = [ m |-> 1, op |-> 1 ]
  /\ inputObjectTypes = <<>>
  /\ FirstRun
  /\ NoUnits
  /\ pc = "models"
  /\ files = NoFiles

NextContext == GenerateModelSchemas

SpecContext == InitContext /\ [][NextContext]_vars

-----------------------------------------------------------------------------
(* include-helpers: the <Model>Include input object types *)

BooleanInputType ==
  [ isList |-> FALSE, type |-> <<"Boolean">>, location |-> "scalar",
    namespace |-> NoNamespace ]

prismaInputType(typeName) ==
  [ isList |-> FALSE, type |-> typeName, location |-> "inputObjectTypes",
    namespace |-> "prisma" ]

\* the nested type is the find-many shape whatever the relation
includeField_findManyAlways(modelField) ==
  [ name |-> modelField.name, isRequired |-> FALSE, isNullable |-> FALSE,
    inputTypes |->
      << BooleanInputType,
         prismaInputType(modelField.type \o <<"Find", "Many", "Args">>) >> ]

\* The field of the include type for one relation field of the model.
includeField(modelField) ==
  [ name |-> modelField.name, isRequired |-> FALSE, isNullable |-> FALSE,
    inputTypes |->
      << BooleanInputType,
         prismaInputType(IF modelField.isList
                         THEN modelField.type \o <<"Find", "Many", "Args">>
                         ELSE modelField.type \o <<"Default", "Args">>) >> ]

RECURSIVE includeFields(_)
includeFields(modelFields) ==
  IF modelFields = <<>> THEN <<>>
  ELSE (IF checkIsModelRelationField(Head(modelFields))
        THEN << includeField(Head(modelFields)) >>
        ELSE <<>>)
       \o includeFields(Tail(modelFields))

\* an include type given to the models with a to-many relation only
hasRelationToAnotherModel_toMany(model) ==
  checkModelHasManyModelRelation(model)

\* every model is given an include type
hasRelationToAnotherModel_always(model) == TRUE

hasRelationToAnotherModel(model) == checkModelHasModelRelation(model)

\* every include type is given the count field
shouldAddCountField_always(model) == TRUE

shouldAddCountField(model) == checkModelHasManyModelRelation(model)

countInputTypes(modelName, select) ==
  << BooleanInputType >>
  \o (IF select
      THEN << prismaInputType(modelName
                \o <<"Count", "Output", "Type", "Default", "Args">>) >>
      ELSE <<>>)

countField(modelName, select) ==
  [ name |-> "_count", isRequired |-> FALSE, isNullable |-> FALSE,
    inputTypes |-> countInputTypes(modelName, select) ]

modelIncludeInputObjectType(model, select) ==
  [ name |-> model.name \o <<"Include">>,
    constraints |-> [ maxNumFields |-> "null", minNumFields |-> "null" ],
    fields |->
      includeFields(model.fields)
      \o (IF shouldAddCountField(model)
          THEN << countField(model.name, select) >>
          ELSE <<>>) ]

RECURSIVE generateModelIncludeInputObjectTypes(_, _)
generateModelIncludeInputObjectTypes(mods, select) ==
  IF mods = <<>> THEN <<>>
  ELSE (IF hasRelationToAnotherModel(Head(mods))
        THEN << modelIncludeInputObjectType(Head(mods), select) >>
        ELSE <<>>)
       \o generateModelIncludeInputObjectTypes(Tail(mods), select)

\* addMissingInputObjectTypesForInclude: the generated types are pushed, in
\* order, onto the list it is handed. Its third argument is the select
\* toggle of the configuration.
AddMissingInputObjectTypesForInclude ==
  /\ pc = "include"
  /\ inputObjectTypes' =
       inputObjectTypes
       \o generateModelIncludeInputObjectTypes(models, isGenerateSelect)
  /\ pc' = "included"
  /\ UNCHANGED <<staticVars, objectVars, modelVars, runVars, unitVars,
                 files>>

-----------------------------------------------------------------------------
(* SpecInclude: the include helper on up to MaxModels models of at most    *)
(* MaxModelFields fields, scalar, to-one and to-many, select on and off    *)

MaxModelFields == 2

ModelFieldNames == << "id", "posts", "author", "role" >>

IncludeModelNames == << <<"User">>, <<"Post">>, <<"Tag">>, <<"Comment">> >>

IncludeModelFields(fieldName) ==
  { scalarField(fieldName),
    relationField(fieldName, <<"Post">>, TRUE),
    relationField(fieldName, <<"User">>, FALSE) }

IncludeFieldLists ==
  UNION { { fl \in [1..k -> UNION { IncludeModelFields(ModelFieldNames[i]) :
                                      i \in 1..k }] :
              \A i \in 1..k : fl[i].name = ModelFieldNames[i] } :
          k \in 0..MaxModelFields }

\* The models of the names of IncludeModelNames, in order, with the lists
\* of fields fls.
IncludeModelList(fls) ==
  [ i \in 1..Len(fls) |->
      [ name |-> IncludeModelNames[i], fields |-> fls[i] ] ]

\* An input object type of the metadata, there before the helper runs.
UserWhereInputType ==
  [ name |-> <<"User", "Where", "Input">>,
    constraints |-> [ maxNumFields |-> "null", minNumFields |-> "null" ],
    fields |-> <<>> ]

InitInclude ==
  /\ enumNames = << <<"Role">> >>
  /\ rawOpsMap = <<>>
  /\ provider = "postgresql"
  /\ previewFeatures = Undefined
  /\ outputPath = <<".", "generated">>
  /\ prismaClientOutputPath = <<"@prisma", "client">>
  /\ isCustomPrismaClientOutputPath = FALSE
  /\ prismaClientProvider = "prisma-client-js"
  /\ prismaClientConfig = DefaultConfig
  /\ isGenerateSelect \in BOOLEAN
  /\ isGenerateInclude = TRUE
  /\ NoObject
  /\ \E k \in 1..MaxModels :
       \E fls \in [1..k -> IncludeFieldLists] :
         models = IncludeModelList(fls)
  /\ modelOperations = <<>>
  /\ aggregateOperationSupport = <<>>
  /\ cursor = [ m |-> 1, op |-> 1 ]
  /\ inputObjectTypes \in { <<>>, << UserWhereInputType >> }
  /\ FirstRun
  /\ NoUnits
  /\ pc = "include"
  /\ files = NoFiles

NextInclude == AddMissingInputObjectTypesForInclude

SpecInclude == InitInclude /\ [][NextInclude]_vars

-----------------------------------------------------------------------------
(* SpecTwice: the generation run twice on the same metadata and the same   *)
(* context, of an object unit or of the operation units of a model         *)

\* The generation is asked for again with the parameters of the first: on
\* a transformer newly constructed from them, or, for an object unit, on
\* the transformer that produced the first. The units of the first are
\* set aside and the output is emptied.
Regenerate ==
  /\ run = 1
  /\ pc \in {"written", "generated"}
  /\ \E fresh \in BOOLEAN :
       IF fresh
       THEN schemaImports' = <<>> /\ hasJson' = FALSE
       ELSE UNCHANGED <<schemaImports, hasJson>>
  /\ cursor' = [ m |-> 1, op |-> 1 ]
  /\ run' = 2
  /\ previous' = files
  /\ files' = NoFiles
  /\ pc' = IF pc = "written" THEN "object" ELSE "models"
  /\ UNCHANGED <<staticVars, name, fields, zodObjectSchemaFields, models,
                 modelOperations, aggregateOperationSupport,
                 inputObjectTypes, unitVars>>

\* Optional fields of the names of FieldNames, in order, with the lists of
\* alternatives its.
TwiceFieldList(its) ==
  [ i \in 1..Len(its) |->
      [ name |-> FieldNames[i], isRequired |-> FALSE,
        isNullable |-> FALSE, inputTypes |-> its[i] ] ]

InitTwice ==
  /\ enumNames = << <<"Role">> >>
  /\ rawOpsMap = <<>>
  /\ previewFeatures = Undefined
  /\ outputPath = <<".", "generated">>
  /\ prismaClientOutputPath = <<"@prisma", "client">>
  /\ isCustomPrismaClientOutputPath = FALSE
  /\ prismaClientProvider = "prisma-client-js"
  /\ prismaClientConfig = DefaultConfig
  /\ \/ /\ provider = "postgresql"
        /\ isGenerateSelect = FALSE
        /\ isGenerateInclude = FALSE
        /\ \E k \in 0..MaxFields :
             \E its \in [1..k -> SampleInputTypes] :
               InitObject({ <<"User", "Where", "Input">> },
                          { TwiceFieldList(its) })
        /\ NoModels
        /\ pc = "object"
     \/ /\ provider \in {"postgresql", "mysql"}
        /\ isGenerateSelect \in BOOLEAN
        /\ isGenerateInclude \in BOOLEAN
        /\ NoObject
        /\ models \in ModelLists(1)
        /\ modelOperations \in
             { << Mapping(models[1].name, set) >> : set \in OperationSets }
        /\ aggregateOperationSupport = [ n \in { models[1].name } |-> AllSupport ]
        /\ cursor = [ m |-> 1, op |-> 1 ]
        /\ inputObjectTypes = <<>>
        /\ pc = "models"
  /\ FirstRun
  /\ NoUnits
  /\ files = NoFiles

NextTwice ==
  \/ GenerateObjectSchema
  \/ GenerateModelSchemas
  \/ Regenerate

SpecTwice == InitTwice /\ [][NextTwice]_vars

-----------------------------------------------------------------------------
(* SpecNaming: the object unit of a composite, of a raw-operation argument *)
(* shape and of an aggregate input, under every provider, with and without *)
(* the entry of the raw-operation table                                    *)

RawOpName == <<"User", "Find", "Raw", "Args">>

\* The table with the entry of RawOpName.
RawOpsTable == [ nm \in { RawOpName } |-> <<"User", "Find", "Raw", "Args">> ]

NamingNames ==
  { <<"User", "Where", "Input">>, RawOpName,
    <<"User", "Count", "Aggregate", "Input">> }

InitNaming ==
  /\ enumNames = << <<"Role">> >>
  /\ rawOpsMap \in { <<>>, RawOpsTable }
  /\ provider \in Providers
  /\ previewFeatures = Undefined
  /\ outputPath = <<".", "generated">>
  /\ prismaClientOutputPath = <<"@prisma", "client">>
  /\ isCustomPrismaClientOutputPath = FALSE
  /\ prismaClientProvider = "prisma-client-js"
  /\ prismaClientConfig = DefaultConfig
  /\ isGenerateSelect = FALSE
  /\ isGenerateInclude = FALSE
  /\ \E k \in 0..1 :
       \E its \in [1..k -> SampleInputTypes] :
         InitObject(NamingNames, { TwiceFieldList(its) })
  /\ NoModels
  /\ FirstRun
  /\ NoUnits
  /\ pc = "object"
  /\ files = NoFiles

NextNaming == GenerateObjectSchema

SpecNaming == InitNaming /\ [][NextNaming]_vars

-----------------------------------------------------------------------------
(* The run: the context is set, then the enum units, an object unit, the   *)
(* operation units and the index are generated                             *)

\* the context written at any time
configuring_always == TRUE

\* The generator writes the context before it generates the first unit.
configuring == pc = "configure"

\* "./generated", "out/schemas" and "out/schemas/".
OutputPaths ==
  { <<".", "generated">>, <<"out", "schemas">>, <<"out", "schemas", "">> }

ClientOutputPaths == { <<"@prisma", "client">>, <<".", "generated", "client">> }

ClientProviders == { "prisma-client-js", "prisma-client" }

EsmConfig ==
  [ moduleFormat |-> "esm", runtime |-> Undefined,
    importFileExtension |-> "js" ]

\* The module format commonjs with an extension, esm without one, and an
\* extension without a module format.
OtherConfigs ==
  { [ moduleFormat |-> "cjs", runtime |-> Undefined,
      importFileExtension |-> "js" ],
    [ moduleFormat |-> "esm", runtime |-> "nodejs",
      importFileExtension |-> Undefined ],
    [ moduleFormat |-> Undefined, runtime |-> Undefined,
      importFileExtension |-> "js" ] }

ClientConfigs == { DefaultConfig, EsmConfig } \cup OtherConfigs

setOutputPath(outPath) ==
  /\ configuring
  /\ outputPath' = outPath
  /\ UNCHANGED <<enumNames, rawOpsMap, provider, previewFeatures,
                 prismaClientOutputPath, isCustomPrismaClientOutputPath,
                 prismaClientProvider, prismaClientConfig, isGenerateSelect,
                 isGenerateInclude>>

setIsGenerateSelect(select) ==
  /\ configuring
  /\ isGenerateSelect' = select
  /\ UNCHANGED <<enumNames, rawOpsMap, provider, previewFeatures, outputPath,
                 prismaClientOutputPath, isCustomPrismaClientOutputPath,
                 prismaClientProvider, prismaClientConfig,
                 isGenerateInclude>>

setIsGenerateInclude(include) ==
  /\ configuring
  /\ isGenerateInclude' = include
  /\ UNCHANGED <<enumNames, rawOpsMap, provider, previewFeatures, outputPath,
                 prismaClientOutputPath, isCustomPrismaClientOutputPath,
                 prismaClientProvider, prismaClientConfig,
                 isGenerateSelect>>

setPrismaClientOutputPath(prismaClientCustomPath) ==
  /\ configuring
  /\ prismaClientOutputPath' = prismaClientCustomPath
  /\ isCustomPrismaClientOutputPath' =
       (prismaClientCustomPath # <<"@prisma", "client">>)
  /\ UNCHANGED <<enumNames, rawOpsMap, provider, previewFeatures, outputPath,
                 prismaClientProvider, prismaClientConfig, isGenerateSelect,
                 isGenerateInclude>>

setPrismaClientProvider(clientProvider) ==
  /\ configuring
  /\ prismaClientProvider' = clientProvider
  /\ UNCHANGED <<enumNames, rawOpsMap, provider, previewFeatures, outputPath,
                 prismaClientOutputPath, isCustomPrismaClientOutputPath,
                 prismaClientConfig, isGenerateSelect, isGenerateInclude>>

setPrismaClientConfig(config) ==
  /\ configuring
  /\ prismaClientConfig' = config
  /\ UNCHANGED <<enumNames, rawOpsMap, provider, previewFeatures, outputPath,
                 prismaClientOutputPath, isCustomPrismaClientOutputPath,
                 prismaClientProvider, isGenerateSelect, isGenerateInclude>>

\* The setters of the context.
Configure ==
  /\ \/ \E outPath \in OutputPaths : setOutputPath(outPath)
     \/ \E select \in BOOLEAN : setIsGenerateSelect(select)
     \/ \E include \in BOOLEAN : setIsGenerateInclude(include)
     \/ \E clientPath \in ClientOutputPaths :
          setPrismaClientOutputPath(clientPath)
     \/ \E clientProvider \in ClientProviders :
          setPrismaClientProvider(clientProvider)
     \/ \E config \in ClientConfigs : setPrismaClientConfig(config)
  /\ UNCHANGED <<objectVars, modelVars, inputObjectTypes, runVars, unitVars,
                 pc, files>>

enumSchemaPath(enumName) ==
  pathJoin(getSchemasPath, <<"enums", enumName \o ".schema.ts">>)

enumSchema(enumType) ==
  generateImportZodStatement \o <<"\n">>
    \o generateExportSchemaStatement(enumType.name,
         <<"z.enum(">> \o enumType.values \o <<")">>)

RECURSIVE writeEnumSchemas(_, _)
writeEnumSchemas(fs, types) ==
  IF types = <<>> THEN fs
  ELSE writeEnumSchemas(
         writeFileSafely(fs, enumSchemaPath(Head(types).name),
                         enumSchema(Head(types))),
         Tail(types))

\* generateEnumSchemas of the enum transformer: one unit for every enum.
GenerateEnumSchemas ==
  /\ pc = "enums"
  /\ files' = writeEnumSchemas(files, enumTypes)
  /\ pc' = "enumsWritten"
  /\ UNCHANGED <<staticVars, objectVars, modelVars, inputObjectTypes,
                 runVars, unitVars>>

indexPath == pathJoin(getSchemasPath, <<"index.ts">>)

\* writeIndexFile: the index re-exports every unit written so far.
writeIndexFile(path, fs) ==
  [ written |-> TRUE, path |-> path, exports |-> DOMAIN fs ]

\* generateIndex.
GenerateIndex ==
  /\ pc = "index"
  /\ index' = writeIndexFile(indexPath, files)
  /\ pc' = "done"
  /\ UNCHANGED <<staticVars, objectVars, modelVars, inputObjectTypes,
                 runVars, enumTypes, instances, files>>

\* index generated before the operation units
nextPhase_indexBeforeModels(phase) ==
  CASE phase = "configure" -> "enums"
    [] phase = "enumsWritten" -> "object"
    [] phase = "written" -> "index"
    [] phase = "done" -> "models"
    [] OTHER -> phase

\* The order of the generator: the enum units, the object units, the
\* operation units, and the index last.
nextPhase(phase) ==
  CASE phase = "configure" -> "enums"
    [] phase = "enumsWritten" -> "object"
    [] phase = "written" -> "models"
    [] phase = "generated" -> "index"
    [] OTHER -> phase

\* The generator goes on to the next generation.
Proceed ==
  /\ nextPhase(pc) # pc
  /\ pc' = nextPhase(pc)
  /\ UNCHANGED <<staticVars, objectVars, modelVars, inputObjectTypes,
                 runVars, unitVars, files>>

RoleEnumType ==
  [ name |-> "Role", values |-> <<"[", "\"USER\"", ",", "\"ADMIN\"", "]">> ]

\* The alternatives of the object unit of the run: none, a scalar, an enum
\* and a composite.
RunInputTypes ==
  { <<>>,
    << [ type |-> <<"Json">>, isList |-> FALSE, location |-> "scalar",
         namespace |-> NoNamespace ] >>,
    << [ type |-> <<"Role">>, isList |-> FALSE, location |-> "enumTypes",
         namespace |-> "model" ],
       [ type |-> <<"Post", "Where", "Input">>, isList |-> FALSE,
         location |-> "inputObjectTypes", namespace |-> "prisma" ] >>,
    << [ type |-> <<"Post", "Find", "Many", "Args">>, isList |-> FALSE,
         location |-> "inputObjectTypes", namespace |-> "prisma" ] >> }

RunOperationSets ==
  { {}, {"findMany", "createOne"}, OperationNames }

InitRun ==
  /\ InitStatic
  /\ \E its \in [1..1 -> RunInputTypes] :
       InitObject({ <<"User", "Where", "Input">> }, { TwiceFieldList(its) })
  /\ models = <<UserModel>>
  /\ \E set \in RunOperationSets :
       modelOperations = << Mapping(models[1].name, set) >>
  /\ aggregateOperationSupport = [ n \in { models[1].name } |-> AllSupport ]
  /\ cursor = [ m |-> 1, op |-> 1 ]
  /\ inputObjectTypes = <<>>
  /\ FirstRun
  /\ enumTypes \in { <<>>, << RoleEnumType >> }
  /\ index = NoIndex
  /\ instances = <<>>
  /\ pc = "configure"
  /\ files = NoFiles

NextRun ==
  \/ Configure
  \/ Proceed
  \/ GenerateEnumSchemas
  \/ GenerateObjectSchema
  \/ GenerateModelSchemas
  \/ GenerateIndex

SpecRun == InitRun /\ [][NextRun]_vars

-----------------------------------------------------------------------------
(* SpecQuery: the object schema of a composite whose field has model query *)
(* types among its alternatives                                            *)

QueryTypeNames ==
  { <<"Post">> \o FindManyArgs, <<"post">> \o FindManyArgs,
    <<"User">> \o FindManyArgs }

QueryAlternatives ==
  [ type : QueryTypeNames, isList : BOOLEAN,
    location : {"inputObjectTypes"}, namespace : {"prisma", "model"} ]
  \cup
  { [ type |-> <<"Boolean">>, isList |-> FALSE, location |-> "scalar",
      namespace |-> NoNamespace ] }

QueryHostNames == { <<"User", "Include">>, <<"User">> \o FindManyArgs }

InitQuery ==
  /\ InitStatic
  /\ \E k \in 0..MaxAlts :
       \E its \in [1..k -> QueryAlternatives] :
         \E req, nul \in BOOLEAN :
           InitObject(QueryHostNames,
                      { << [ name |-> "posts", isRequired |-> req,
                             isNullable |-> nul, inputTypes |-> its ] >> })
  /\ NoModels
  /\ FirstRun
  /\ NoUnits
  /\ pc = "object"
  /\ files = NoFiles

NextQuery == GenerateObjectSchema

SpecQuery == InitQuery /\ [][NextQuery]_vars

-----------------------------------------------------------------------------
(* SpecOracle: the object unit of a composite the Prisma namespace has a   *)
(* type for and of one it has none for, with and without a field that      *)
(* counts as a complex relation                                            *)

OracleNames ==
  { <<"User", "Where", "Input">>, <<"User", "Create", "Many", "Input">> }

OracleAlternatives ==
  { [ type |-> <<"Json">>, isList |-> FALSE, location |-> "scalar",
      namespace |-> NoNamespace ],
    [ type |-> <<"Role">>, isList |-> FALSE, location |-> "enumTypes",
      namespace |-> "model" ],
    [ type |-> <<"Post", "Where", "Input">>, isList |-> TRUE,
      location |-> "inputObjectTypes", namespace |-> "prisma" ],
    [ type |-> <<"Post", "Where", "Unique", "Input">>, isList |-> FALSE,
      location |-> "inputObjectTypes", namespace |-> "prisma" ],
    [ type |-> <<"Post", "Where", "Unique", "Input">>, isList |-> FALSE,
      location |-> "inputObjectTypes", namespace |-> "model" ] }

InitOracle ==
  /\ InitStatic
  /\ \E k \in 0..MaxAlts :
       \E its \in [1..k -> OracleAlternatives] :
         \E req, nul \in BOOLEAN :
           InitObject(OracleNames,
                      { << [ name |-> "data", isRequired |-> req,
                             isNullable |-> nul, inputTypes |-> its ] >> })
  /\ NoModels
  /\ FirstRun
  /\ NoUnits
  /\ pc = "object"
  /\ files = NoFiles

NextOracle == GenerateObjectSchema

SpecOracle == InitOracle /\ [][NextOracle]_vars

-----------------------------------------------------------------------------
(* SpecRegistry: the object schema of a composite whose field has enums    *)
(* of the registry of enum names, enums the registry lacks and an enum     *)
(* whose name contains FindManyArgs among its alternatives                 *)

SortOrder == <<"Sort", "Order">>

PostFindManyArgsKind == <<"Post">> \o FindManyArgs \o <<"Kind">>

RegistryAlternatives ==
  { [ type |-> <<"Role">>, isList |-> FALSE, location |-> "enumTypes",
      namespace |-> "model" ],
    [ type |-> SortOrder, isList |-> FALSE, location |-> "enumTypes",
      namespace |-> "prisma" ],
    [ type |-> PostFindManyArgsKind, isList |-> FALSE,
      location |-> "enumTypes", namespace |-> "model" ],
    [ type |-> <<"Post", "Where", "Input">>, isList |-> TRUE,
      location |-> "inputObjectTypes", namespace |-> "prisma" ],
    [ type |-> <<"Post">> \o FindManyArgs, isList |-> FALSE,
      location |-> "inputObjectTypes", namespace |-> "prisma" ] }

InitRegistry ==
  /\ InitStatic
  /\ \E k \in 0..MaxAlts :
       \E its \in [1..k -> RegistryAlternatives] :
         \E req, nul \in BOOLEAN :
           InitObject({ <<"User", "Where", "Input">> },
                      { << [ name |-> "orderBy", isRequired |-> req,
                             isNullable |-> nul, inputTypes |-> its ] >> })
  /\ NoModels
  /\ FirstRun
  /\ NoUnits
  /\ pc = "object"
  /\ files = NoFiles

NextRegistry == GenerateObjectSchema

SpecRegistry == InitRegistry /\ [][NextRegistry]_vars

-----------------------------------------------------------------------------
(* SpecReference: the object unit of an Include type whose field has the   *)
(* find-many arguments of a model among its alternatives, then the         *)
(* operation units of that model; the name of the model starts with an     *)
(* upper-case or a lower-case letter                                       *)

ReferencedModelNames == { <<"Post">>, <<"post">>, <<"User">>, <<"user">> }

ReferenceOperationSets == { {"findMany"}, OperationNames }

InitReference ==
  /\ InitStatic
  /\ \E m \in ReferencedModelNames :
       \E list, req, nul \in BOOLEAN :
         \E set \in ReferenceOperationSets :
           /\ InitObject({ <<"Tag", "Include">> },
                { << [ name |-> "items", isRequired |-> req,
                       isNullable |-> nul,
                       inputTypes |->
                         << [ type |-> <<"Boolean">>, isList |-> FALSE,
                              location |-> "scalar",
                              namespace |-> NoNamespace ],
                            [ type |-> m \o FindManyArgs, isList |-> list,
                              location |-> "inputObjectTypes",
                              namespace |-> "prisma" ] >> ] >> })
           /\ models = << [ name |-> m, fields |-> << scalarField("id") >> ] >>
           /\ modelOperations = << Mapping(m, set) >>
           /\ aggregateOperationSupport = [ n \in {m} |-> AllSupport ]
  /\ cursor = [ m |-> 1, op |-> 1 ]
  /\ inputObjectTypes = <<>>
  /\ FirstRun
  /\ NoUnits
  /\ pc = "object"
  /\ files = NoFiles

NextReference ==
  \/ GenerateObjectSchema
  \/ Proceed
  \/ GenerateModelSchemas

SpecReference == InitReference /\ [][NextReference]_vars

-----------------------------------------------------------------------------
(* SpecIncludeUnits: the include helper, then the operation units, on the  *)
(* same list of up to MaxModels models (one with a to-many relation, one   *)
(* with a to-one relation, one without relation), the include toggle on    *)

\* The generator goes on from the include helper to the operation units.
StartModelSchemas ==
  /\ pc = "included"
  /\ pc' = "models"
  /\ UNCHANGED <<staticVars, objectVars, modelVars, inputObjectTypes,
                 runVars, unitVars, files>>

IncludeUnitOperationSets == { {"findMany"}, OperationNames }

InitIncludeUnits ==
  /\ enumNames = << <<"Role">> >>
  /\ rawOpsMap = <<>>
  /\ provider = "postgresql"
  /\ previewFeatures = Undefined
  /\ outputPath = <<".", "generated">>
  /\ prismaClientOutputPath = <<"@prisma", "client">>
  /\ isCustomPrismaClientOutputPath = FALSE
  /\ prismaClientProvider = "prisma-client-js"
  /\ prismaClientConfig = DefaultConfig
  /\ isGenerateSelect \in BOOLEAN
  /\ isGenerateInclude = TRUE
  /\ NoObject
  /\ models \in ModelLists(MaxModels)
  /\ \E set \in IncludeUnitOperationSets :
       modelOperations =
         [ i \in 1..Len(models) |-> Mapping(models[i].name, set) ]
  /\ aggregateOperationSupport =
       [ n \in { models[i].name : i \in 1..Len(models) } |-> AllSupport ]
  /\ cursor = [ m |-> 1, op |-> 1 ]
  /\ inputObjectTypes \in { <<>>, << UserWhereInputType >> }
  /\ FirstRun
  /\ NoUnits
  /\ pc = "include"
  /\ files = NoFiles

NextIncludeUnits ==
  \/ AddMissingInputObjectTypesForInclude
  \/ StartModelSchemas
  \/ GenerateModelSchemas

SpecIncludeUnits == InitIncludeUnits /\ [][NextIncludeUnits]_vars

-----------------------------------------------------------------------------
(* SpecMissing: generateModelSchemas on mappings that may name a model the *)
(* list of models does not have                                            *)

MaxMappings == 3

MappingModelNames == { <<"User">>, <<"Post">>, <<"Tag">>, <<"Comment">> }

InitMissing ==
  /\ InitStatic
  /\ NoObject
  /\ models \in { << UserModel >>, << UserModel, PostModel >> }
  /\ \E k \in 1..MaxMappings :
       \E names \in [1..k -> MappingModelNames] :
         \E sets \in [1..k -> RestOperationSets] :
           /\ \A i, j \in 1..k : i # j => names[i] # names[j]
           /\ modelOperations = [ i \in 1..k |-> Mapping(names[i], sets[i]) ]
  /\ \E supported \in { MappingModelNames,
                         MappingModelNames \ { <<"User">> } } :
       aggregateOperationSupport = [ n \in supported |-> AllSupport ]
  /\ cursor = [ m |-> 1, op |-> 1 ]
  /\ inputObjectTypes = <<>>
  /\ FirstRun
  /\ NoUnits
  /\ pc = "models"
  /\ files = NoFiles

NextMissing == GenerateModelSchemas

SpecMissing == InitMissing /\ [][NextMissing]_vars

-----------------------------------------------------------------------------
(* Object transformers side by side: generateObjectSchema of each runs to  *)
(* its await of writeFileSafely, and the writes complete in any order      *)

MaxInstances == 2

\* the import set and the JSON flag of every transformer taken as one
instanceState_shared(insts, i) ==
  [ hasJson |-> \E j \in 1..Len(insts) : insts[j].hasJson,
    schemaImports |->
      IF i > 1 /\ insts[1].schemaImports # <<>>
      THEN insts[1].schemaImports \o insts[i].schemaImports
      ELSE insts[i].schemaImports ]

\* this.hasJson and this.schemaImports of transformer i.
instanceState(insts, i) ==
  [ hasJson |-> insts[i].hasJson, schemaImports |-> insts[i].schemaImports ]

\* A transformer as its constructor leaves it.
newInstance(thisName, flds) ==
  [ name |-> thisName, fields |-> flds, schemaImports |-> <<>>,
    hasJson |-> FALSE, state |-> "new", path |-> <<>>, text |-> <<>> ]

\* The transformer after the synchronous part of generateObjectSchema: gen
\* is the value of generateObjectSchemaFields.
assembled(inst, gen) ==
  [ inst EXCEPT
      !.schemaImports = gen.schemaImports,
      !.hasJson = gen.hasJson,
      !.state = "awaiting",
      !.path = objectSchemaPath(inst.name),
      !.text = prepareObjectSchema(inst.name, inst.fields, gen.lines,
                 [ hasJson |-> gen.hasJson,
                   schemaImports |-> gen.schemaImports ]) ]

\* generateObjectSchema of transformer i, up to the await of the write.
AssembleObjectSchema(i) ==
  /\ instances[i].state = "new"
  /\ instances' =
       [ instances EXCEPT
           ![i] = assembled(instances[i],
                    generateObjectSchemaFields(instances[i].name,
                      instances[i].fields, instanceState(instances, i))) ]
  /\ UNCHANGED <<staticVars, objectVars, modelVars, inputObjectTypes,
                 runVars, enumTypes, index, pc, files>>

\* The write of transformer i completes.
CompleteWrite(i) ==
  /\ instances[i].state = "awaiting"
  /\ files' = writeFileSafely(files, instances[i].path, instances[i].text)
  /\ instances' = [ instances EXCEPT ![i].state = "written" ]
  /\ UNCHANGED <<staticVars, objectVars, modelVars, inputObjectTypes,
                 runVars, enumTypes, index, pc>>

InstanceNames ==
  << <<"User", "Where", "Input">>, <<"Post", "Where", "Input">>,
     <<"Tag", "Where", "Input">>, <<"Role", "Where", "Input">> >>

\* The alternatives of a field: none, one of the sample, and two pairs.
ConcurrentInputTypes ==
  {<<>>} \cup { <<a>> : a \in SampleAlternatives }
    \cup { << [ type |-> <<"Json">>, isList |-> FALSE,
               location |-> "scalar", namespace |-> NoNamespace ],
             [ type |-> <<"Post", "Where", "Input">>, isList |-> FALSE,
               location |-> "inputObjectTypes", namespace |-> "prisma" ] >>,
           << [ type |-> <<"Role">>, isList |-> FALSE,
               location |-> "enumTypes", namespace |-> "model" ],
             [ type |-> <<"User", "Where", "Input">>, isList |-> TRUE,
               location |-> "inputObjectTypes", namespace |-> "prisma" ] >> }

InitConcurrent ==
  /\ InitStatic
  /\ NoObject
  /\ NoModels
  /\ FirstRun
  /\ enumTypes = <<>>
  /\ index = NoIndex
  /\ \E its \in [1..MaxInstances -> ConcurrentInputTypes] :
       instances =
         [ i \in 1..MaxInstances |->
             newInstance(InstanceNames[i], TwiceFieldList(<< its[i] >>)) ]
  /\ pc = "instances"
  /\ files = NoFiles

AssembleSome == \E i \in 1..Len(instances) : AssembleObjectSchema(i)

CompleteSome == \E i \in 1..Len(instances) : CompleteWrite(i)

NextConcurrent ==
  \/ AssembleSome
  \/ CompleteSome

SpecConcurrent == InitConcurrent /\ [][NextConcurrent]_vars

-----------------------------------------------------------------------------
(* Vocabulary of the claims on object schema fields *)

\* An alternative the documentation calls resolvable: a mapped scalar, an
\* enum, or a composite of the host namespace.
Resolvable(a) ==
  \/ a.type \in ScalarTypes
  \/ a.location = "enumTypes"
  \/ a.namespace = "prisma"

ResolvableAlts(f) == SelectSeq(f.inputTypes, Resolvable)

\* The documented primitive of a scalar type.
Primitive(type) ==
  CASE type = <<"String">> -> "z.string()"
    [] type = <<"Int">> -> "z.number().int()"
    [] type = <<"Float">> -> "z.number()"
    [] type = <<"Decimal">> -> "z.number()"
    [] type = <<"BigInt">> -> "z.bigint()"
    [] type = <<"Boolean">> -> "z.boolean()"
    [] type = <<"DateTime">> -> "z.coerce.date()"
    [] type = <<"Json">> -> "jsonSchema"
    [] type = <<"True">> -> "z.literal(true)"
    [] type = <<"Bytes">> -> "z.instanceof(Uint8Array)"

ArrayWrapper(a) == IF a.isList THEN <<".array()">> ELSE <<>>

OptionalWrapper(f) == IF f.isRequired THEN <<>> ELSE <<".optional()">>

NullableWrapper(f) == IF f.isNullable THEN <<".nullable()">> ELSE <<>>

\* The position, among the emitted lines, of the line of field i.
EmittedIndex(i) ==
  Cardinality({ j \in 1..i : ResolvableAlts(fields[j]) # <<>> })

LineOf(i) == zodObjectSchemaFields[EmittedIndex(i)]

Count(text, tok) == Cardinality({ k \in 1..Len(text) : text[k] = tok })

SingleScalar(f) ==
  /\ Len(ResolvableAlts(f)) = 1
  /\ ResolvableAlts(f)[1].type \in ScalarTypes

\* C1: a field with exactly one resolvable alternative, a scalar, is emitted
\* as the documented primitive followed by the array wrapper iff the
\* alternative is a list, then the optional wrapper iff the field is not
\* required, then the nullable wrapper iff the field is nullable, each at
\* most once.
C1_ScalarWrappers ==
  pc = "written" =>
    \A i \in 1..Len(fields) :
      SingleScalar(fields[i]) =>
        LET f == fields[i]
            a == ResolvableAlts(f)[1]
        IN  LineOf(i) = <<f.name, ":", " ", Primitive(a.type)>>
                          \o ArrayWrapper(a) \o OptionalWrapper(f)
                          \o NullableWrapper(f)

C1_Witness ==
  /\ pc = "written"
  /\ \E i \in 1..Len(fields) :
       /\ SingleScalar(fields[i])
       /\ ResolvableAlts(fields[i])[1].isList
       /\ ~fields[i].isRequired
       /\ fields[i].isNullable
       /\ Len(LineOf(i)) = 7

\* C2: a field with more than one resolvable alternative is emitted as a
\* union with one member per alternative, no member carrying an optional
\* wrapper; after the union comes the optional wrapper iff the field is not
\* required, then the nullable wrapper iff the field is nullable.
C2_UnionOptionalOutside ==
  pc = "written" =>
    \A i \in 1..Len(fields) :
      Len(ResolvableAlts(fields[i])) > 1 =>
        LET f == fields[i]
            line == LineOf(i)
            close == indexOf(line, "])")
        IN  /\ close > 4
            /\ SubSeq(line, 1, 4) = <<f.name, ":", " ", "z.union([">>
            /\ Count(line, "z.union([") = 1
            /\ Count(line, "])") = 1
            /\ Count(line, ",\r\n") = Len(ResolvableAlts(f)) - 1
            /\ \A k \in 1..close : line[k] # ".optional()"
            /\ SubSeq(line, close + 1, Len(line))
                 = OptionalWrapper(f) \o NullableWrapper(f)

C2_Witness ==
  /\ pc = "written"
  /\ \E i \in 1..Len(fields) :
       /\ Len(ResolvableAlts(fields[i])) > 1
       /\ ~fields[i].isRequired
       /\ \E k \in 1..Len(fields[i].inputTypes) :
            fields[i].inputTypes[k].type \in ScalarTypes
       /\ \E k \in 1..Len(fields[i].inputTypes) :
            fields[i].inputTypes[k].location = "enumTypes"
       /\ Count(LineOf(i), ".optional()") = 1

\* The identifiers by which a line can refer to the schema of type nm.
ReferencesTo(nm) == { Str(nm) \o "ObjectSchema", Str(nm) \o "Schema" }

IsLazyAt(line, k) ==
  /\ k > 1
  /\ k < Len(line)
  /\ line[k - 1] = "z.lazy(() => "
  /\ line[k + 1] = ")"

\* C4: in the object schema of composite T every emitted reference to T
\* itself is wrapped in a lazy binding.
C4_SelfReferenceLazy ==
  pc = "written" =>
    \A n \in 1..Len(zodObjectSchemaFields) :
      \A k \in 1..Len(zodObjectSchemaFields[n]) :
        zodObjectSchemaFields[n][k] \in ReferencesTo(name) =>
          IsLazyAt(zodObjectSchemaFields[n], k)

C4_Witness ==
  /\ pc = "written"
  /\ \E i \in 1..Len(fields) :
       /\ Len(ResolvableAlts(fields[i])) > 1
       /\ \E k \in 1..Len(fields[i].inputTypes) :
            /\ fields[i].inputTypes[k].type = name
            /\ fields[i].inputTypes[k].location = "enumTypes"
            /\ fields[i].inputTypes[k].namespace = "model"
            /\ fields[i].inputTypes[k].isList
       /\ \E k \in 1..Len(LineOf(i)) : IsLazyAt(LineOf(i), k)

\* The line a field gets in a composite that has no other field.
LineAlone(f) ==
  generateObjectSchemaFields(name, <<f>>,
    [ hasJson |-> FALSE, schemaImports |-> <<>> ]).lines[1]

EmittedFields == { i \in 1..Len(fields) : ResolvableAlts(fields[i]) # <<>> }

\* C3: a field without a resolvable alternative is left out of the object
\* schema and the unit is still written; no emitted line holds an empty
\* union; every other field has the line it has without the omitted ones.
C3_UnmappableFieldOmitted ==
  pc = "written" =>
    /\ Len(zodObjectSchemaFields) = Cardinality(EmittedFields)
    /\ \A n \in 1..Len(zodObjectSchemaFields) :
         \A k \in 1..Len(zodObjectSchemaFields[n]) :
           zodObjectSchemaFields[n][k] = "z.union([" =>
             /\ k < Len(zodObjectSchemaFields[n])
             /\ zodObjectSchemaFields[n][k + 1] # "])"
    /\ \A i \in EmittedFields :
         /\ LineOf(i)[1] = fields[i].name
         /\ LineOf(i) = LineAlone(fields[i])
    /\ objectSchemaPath(name) \in DOMAIN files

C3_Witness ==
  /\ pc = "written"
  /\ Len(fields) = 2
  /\ fields[1].inputTypes # <<>>
  /\ ResolvableAlts(fields[1]) = <<>>
  /\ Len(ResolvableAlts(fields[2])) = 2
  /\ Len(zodObjectSchemaFields) = 1
  /\ zodObjectSchemaFields[1][1] = fields[2].name

-----------------------------------------------------------------------------
(* Vocabulary of the claims on operation units *)

Mappings == 1..Len(modelOperations)

Present(i, op) == modelOperations[i][op] # Undefined

\* Where the metadata names the unit of an operation of a model:
\* <operation><Model>.schema.ts in the schemas directory.
UnitPath(modelName, op) ==
  pathJoin(getSchemasPath, << op \o Str(modelName) \o ".schema.ts" >>)

UnitOf(i, op) == UnitPath(modelOperations[i].model, op)

Written(i, op) == UnitOf(i, op) \in DOMAIN files

\* The positions of a run of tokens in a text.
Occurrences(text, toks) ==
  { k \in 1..Len(text) :
      /\ k + Len(toks) - 1 <= Len(text)
      /\ SubSeq(text, k, k + Len(toks) - 1) = toks }

\* C5: the createMany unit holds the key skipDuplicates, as an optional
\* boolean, iff the provider is postgresql or cockroachdb; with any other
\* provider the key is not in the unit at all.
C5_SkipDuplicatesByProvider ==
  \A i \in Mappings :
    Written(i, "createMany") =>
      IF provider \in {"postgresql", "cockroachdb"}
      THEN /\ Count(files[UnitOf(i, "createMany")], "skipDuplicates") = 1
           /\ Occurrences(files[UnitOf(i, "createMany")],
                          <<"skipDuplicates", ": ", "z.boolean()",
                            ".optional()", " })">>) # {}
      ELSE Count(files[UnitOf(i, "createMany")], "skipDuplicates") = 0

C5_Witness ==
  /\ pc = "generated"
  /\ provider = "cockroachdb"
  /\ \E i \in Mappings :
       /\ Written(i, "createMany")
       /\ includes(files[UnitOf(i, "createMany")], "skipDuplicates")

PresentUnits ==
  { UnitOf(p[1], p[2]) :
      p \in { q \in Mappings \X OperationNames : Present(q[1], q[2]) } }

\* C8: a unit is written for an operation of a model only if the model's
\* mapping has the operation, and when generateModelSchemas has returned
\* every operation of every mapping has its unit, and there is no other
\* unit.
C8_UnitIffOperationMapped ==
  /\ DOMAIN files \subseteq PresentUnits
  /\ \A i \in Mappings : \A op \in OperationNames :
       Written(i, op) => Present(i, op)
  /\ pc = "generated" =>
       /\ \A i \in Mappings : \A op \in OperationNames :
            Present(i, op) <=> Written(i, op)
       /\ Cardinality(DOMAIN files)
            = Cardinality({ <<i, op>> \in Mappings \X OperationNames :
                              Present(i, op) })

C8_Witness ==
  /\ pc = "generated"
  /\ Len(modelOperations) = 2
  /\ Present(1, "createOne")
  /\ ~Present(1, "createMany")
  /\ Written(1, "createOne")
  /\ ~Written(1, "createMany")
  /\ Cardinality(DOMAIN files) = 23

\* The twelve verbs with a capital first letter.
CapitalizedVerb(op) ==
  CASE op = "findUnique" -> "FindUnique"
    [] op = "findFirst" -> "FindFirst"
    [] op = "findMany" -> "FindMany"
    [] op = "createOne" -> "CreateOne"
    [] op = "createMany" -> "CreateMany"
    [] op = "deleteOne" -> "DeleteOne"
    [] op = "deleteMany" -> "DeleteMany"
    [] op = "updateOne" -> "UpdateOne"
    [] op = "updateMany" -> "UpdateMany"
    [] op = "upsertOne" -> "UpsertOne"
    [] op = "aggregate" -> "Aggregate"
    [] op = "groupBy" -> "GroupBy"

\* The names exported by a unit.
Exports(text) ==
  { text[k + 1] : k \in { j \in 1..(Len(text) - 1) : text[j] = "export const " } }

\* C10 as stated: the unit of verb V of model M is at <M><V>.schema in the
\* schemas directory, and exports the definition named by the same rule.
C10_ModelVerbPath ==
  pc = "generated" =>
    \A i \in Mappings : \A op \in OperationNames :
      Present(i, op) =>
        LET stem == Str(modelOperations[i].model) \o CapitalizedVerb(op)
            path == pathJoin(getSchemasPath, << stem \o ".schema.ts" >>)
        IN  /\ path \in DOMAIN files
            /\ Exports(files[path]) = { stem \o "Schema" }

\* The verb in the exported name: upsertOne is exported as Upsert.
ExportedVerb(op) ==
  IF op = "upsertOne" THEN "Upsert" ELSE CapitalizedVerb(op)

\* C10 amended: the unit of operation V of model M is at <name>.schema.ts in
\* the schemas directory, <name> being the mapping's entry for V (in the
\* metadata <V><M>, as in findManyUser.schema.ts), and it exports the one
\* definition <M><Verb>Schema, Verb being V with a capital first letter,
\* Upsert for upsertOne.
C10_MappingEntryPath ==
  \A i \in Mappings : \A op \in OperationNames :
    (Present(i, op) /\ (pc = "generated" \/ cursor.m > i)) =>
        LET path == pathJoin(getSchemasPath,
                             << modelOperations[i][op] \o ".schema.ts" >>)
        IN  /\ path \in DOMAIN files
            /\ Exports(files[path])
                 = { Str(modelOperations[i].model) \o ExportedVerb(op)
                       \o "Schema" }

C10_Witness ==
  /\ pc = "generated"
  /\ \E i \in Mappings :
       /\ modelOperations[i].model = <<"User">>
       /\ Present(i, "findMany")
       /\ Present(i, "upsertOne")
       /\ <<"generated", "schemas", "findManyUser.schema.ts">> \in DOMAIN files
       /\ Exports(files[<<"generated", "schemas", "findManyUser.schema.ts">>])
            = {"UserFindManySchema"}
       /\ Exports(files[<<"generated", "schemas", "upsertOneUser.schema.ts">>])
            = {"UserUpsertSchema"}

-----------------------------------------------------------------------------
(* Vocabulary of the claims on include types *)

IncludeName(model) == model.name \o <<"Include">>

\* The positions of the types of a name in the list of input object types.
TypesNamed(typeName) ==
  { k \in 1..Len(inputObjectTypes) : inputObjectTypes[k].name = typeName }

RelationFields(model) ==
  { k \in 1..Len(model.fields) : checkIsModelRelationField(model.fields[k]) }

ToManyRelationFields(model) ==
  { k \in RelationFields(model) : model.fields[k].isList }

\* C6: the include helper adds no <Model>Include type for a model without
\* a relation field, and exactly one for a model with a relation field.
C6_IncludeIffRelation ==
  /\ pc = "include" =>
       \A i \in 1..Len(models) : TypesNamed(IncludeName(models[i])) = {}
  /\ pc = "included" =>
       \A i \in 1..Len(models) :
         Cardinality(TypesNamed(IncludeName(models[i])))
           = IF RelationFields(models[i]) = {} THEN 0 ELSE 1

C6_Witness ==
  /\ pc = "included"
  /\ Len(models) = 2
  /\ RelationFields(models[1]) = {}
  /\ RelationFields(models[2]) # {}
  /\ TypesNamed(IncludeName(models[1])) = {}
  /\ Cardinality(TypesNamed(IncludeName(models[2]))) = 1
  /\ Len(inputObjectTypes) = 2

CountFieldsOf(type) ==
  { k \in 1..Len(type.fields) : type.fields[k].name = "_count" }

\* C7: a generated <Model>Include type has a _count field iff the model has
\* a list-valued relation; the field is not required; its alternatives are
\* Boolean alone when select is off, and Boolean then
\* <Model>CountOutputTypeDefaultArgs when select is on.
C7_CountIffToManyRelation ==
  pc = "included" =>
    \A i \in 1..Len(models) :
      \A t \in TypesNamed(IncludeName(models[i])) :
        /\ CountFieldsOf(inputObjectTypes[t]) # {}
             <=> ToManyRelationFields(models[i]) # {}
        /\ Cardinality(CountFieldsOf(inputObjectTypes[t])) <= 1
        /\ \A k \in CountFieldsOf(inputObjectTypes[t]) :
             /\ inputObjectTypes[t].fields[k].isRequired = FALSE
             /\ inputObjectTypes[t].fields[k].inputTypes =
                  IF isGenerateSelect
                  THEN << BooleanInputType,
                          [ isList |-> FALSE,
                            type |-> models[i].name
                                       \o <<"Count", "Output", "Type",
                                            "Default", "Args">>,
                            location |-> "inputObjectTypes",
                            namespace |-> "prisma" ] >>
                  ELSE << BooleanInputType >>

C7_Witness ==
  /\ pc = "included"
  /\ isGenerateSelect
  /\ Len(models) = 2
  /\ ToManyRelationFields(models[1]) # {}
  /\ RelationFields(models[2]) # {}
  /\ ToManyRelationFields(models[2]) = {}
  /\ \E t \in TypesNamed(IncludeName(models[1])) :
       /\ CountFieldsOf(inputObjectTypes[t]) # {}
       /\ Str(inputObjectTypes[t].fields[Len(inputObjectTypes[t].fields)]
                .inputTypes[2].type)
            = Str(models[1].name) \o "CountOutputTypeDefaultArgs"
  /\ \E t \in TypesNamed(IncludeName(models[2])) :
       CountFieldsOf(inputObjectTypes[t]) = {}

-----------------------------------------------------------------------------
(* Vocabulary of the claim on the repeated generation *)

\* C9: the generation is deterministic: run a second time on the same
\* metadata and the same context it writes the paths of the first run and
\* no other, with the same text at every path.
C9_SecondRunIdentical ==
  /\ run = 2 =>
       \A path \in DOMAIN files :
         path \in DOMAIN previous /\ files[path] = previous[path]
  /\ (run = 2 /\ pc \in {"written", "generated"}) => files = previous

C9_Witness ==
  /\ run = 2
  /\ pc = "written"
  /\ hasJson
  /\ Len(schemaImports) >= 1
  /\ files # NoFiles
  /\ files = previous

-----------------------------------------------------------------------------
(* Vocabulary of the claims on the names of object units *)

\* The names an object unit can be given: the composite's name, and the
\* entries of the raw-operation table with and without Args.
UnitNames ==
  { Str(name) }
    \cup { Str(rawOpsMap[nm]) : nm \in DOMAIN rawOpsMap }
    \cup { Str(nameReplace(rawOpsMap[nm], <<"Args">>, <<>>)) :
             nm \in DOMAIN rawOpsMap }

ObjectUnitPath(N) ==
  pathJoin(getSchemasPath, <<"objects", N \o ".schema.ts">>)

\* C11: when generateObjectSchema has ended the unit of the composite is
\* written, at objects/<N>.schema, and exports the one definition
\* <N>ObjectSchema with the same N, under every provider, the remap of a
\* raw-operation argument shape being the same in the path and in the name.
C11_SameNameInPathAndExport ==
  pc # "object" =>
    /\ pc = "written"
    /\ \E N \in UnitNames :
         /\ DOMAIN files = { ObjectUnitPath(N) }
         /\ Exports(files[ObjectUnitPath(N)]) = { N \o "ObjectSchema" }

\* The unit of a raw-operation argument shape under a provider that is not
\* mongodb, the table having its entry: the path has the remapped name, the
\* exported definition the name of the composite.
C11_PathAndExportDiffer ==
  /\ pc = "written"
  /\ provider = "postgresql"
  /\ name = RawOpName
  /\ DOMAIN files = { ObjectUnitPath("UserFindRaw") }
  /\ Exports(files[ObjectUnitPath("UserFindRaw")])
       = { "UserFindRawArgsObjectSchema" }

\* The same shape, the table having no entry: generateObjectSchema throws
\* and writes nothing.
C11_NoUnitWritten ==
  /\ pc = "failed"
  /\ name = RawOpName
  /\ rawOpsMap = <<>>
  /\ files = NoFiles

-----------------------------------------------------------------------------
(* Vocabulary of the claims on the run *)

\* C12: once the generation of the first unit has started no value of the
\* context changes for the rest of the run: generateEnumSchemas,
\* generateObjectSchema, generateModelSchemas and generateIndex leave the
\* output path, the provider, the preview features, the client output
\* path, provider and configuration, the select and include toggles, the
\* enum names and the raw-operation table as they are.
C12_ContextReadOnly ==
  [][ (pc # "configure" \/ pc' # "configure") => staticVars' = staticVars ]_vars

C12_Witness ==
  /\ pc = "done"
  /\ isGenerateSelect
  /\ outputPath = <<"out", "schemas">>
  /\ prismaClientConfig = EsmConfig
  /\ isCustomPrismaClientOutputPath
  /\ index.written
  /\ Cardinality(DOMAIN files) >= 3

\* The units of the run: of the enums, of the composite and of the
\* operations the mappings have.
RunUnits ==
  { enumSchemaPath(enumTypes[k].name) : k \in 1..Len(enumTypes) }
    \cup { objectSchemaPath(name) }
    \cup PresentUnits

\* C14: the index is produced only after every other unit, of the enums,
\* of the composite and of the operations, has been produced, and it
\* re-exports every one of them.
C14_IndexLast ==
  index.written =>
    /\ RunUnits \subseteq DOMAIN files
    /\ index.exports = DOMAIN files

C14_Witness ==
  /\ index.written
  /\ pc = "done"
  /\ Len(enumTypes) = 1
  /\ Cardinality(index.exports) = 14
  /\ <<"generated", "schemas", "enums", "Role.schema.ts">> \in index.exports
  /\ <<"generated", "schemas", "objects", "UserWhereInput.schema.ts">>
       \in index.exports
  /\ <<"generated", "schemas", "groupByUser.schema.ts">> \in index.exports

-----------------------------------------------------------------------------
(* Vocabulary of the claim on transformers side by side *)

\* The path and the text of the unit of a transformer assembled alone.
AssembledAlone(inst) ==
  assembled(newInstance(inst.name, inst.fields),
            generateObjectSchemaFields(inst.name, inst.fields,
              [ hasJson |-> FALSE, schemaImports |-> <<>> ]))

\* C13: the generations of object units of distinct transformers being
\* interleaved in any order at their writes, the path and the text of each
\* unit are those of the transformer assembled alone, and a transformer
\* not yet assembled has the import set and the JSON flag its constructor
\* gave it, whatever the others have done.
C13_InterleavingSafe ==
  \A i \in 1..Len(instances) :
    /\ instances[i].state = "new" =>
         /\ instances[i].schemaImports = <<>>
         /\ instances[i].hasJson = FALSE
    /\ instances[i].state # "new" =>
         /\ instances[i].path = AssembledAlone(instances[i]).path
         /\ instances[i].text = AssembledAlone(instances[i]).text
         /\ instances[i].schemaImports
              = AssembledAlone(instances[i]).schemaImports
         /\ instances[i].hasJson = AssembledAlone(instances[i]).hasJson
    /\ instances[i].state = "written" =>
         /\ instances[i].path \in DOMAIN files
         /\ files[instances[i].path] = AssembledAlone(instances[i]).text

C13_Witness ==
  /\ Len(instances) = 2
  /\ instances[1].state = "awaiting"
  /\ instances[2].state = "written"
  /\ instances[1].hasJson
  /\ ~instances[2].hasJson
  /\ instances[1].schemaImports # <<>>
  /\ instances[2].schemaImports # <<>>
  /\ instances[1].schemaImports # instances[2].schemaImports
  /\ DOMAIN files = { instances[2].path }

-----------------------------------------------------------------------------
(* Vocabulary of the claim on a mapping whose model is missing *)

ModelMissing(m) ==
  \A i \in 1..Len(models) : models[i].name # modelOperations[m].model

\* The units the mappings m and later would give.
UnitsFrom(m) ==
  { operationPath(modelOperations[q[1]][q[2]]) :
      q \in { r \in (m..Len(modelOperations)) \X OperationNames :
                modelOperations[r[1]][r[2]] # Undefined } }

\* C15: a mapping naming a model the list of models lacks ends
\* generateModelSchemas in a failure: the run gets no further than that
\* mapping, never completes, and no unit of that mapping (nor of a later
\* one) is written.
C15_MissingModelFails ==
  \A m \in 1..Len(modelOperations) :
    ModelMissing(m) =>
      /\ pc # "generated"
      /\ cursor.m <= m
      /\ cursor.m = m => cursor.op = 1
      /\ UnitsFrom(m) \cap DOMAIN files = {}

C15_Witness ==
  /\ pc = "failed"
  /\ Len(modelOperations) = 3
  /\ cursor = [ m |-> 2, op |-> 1 ]
  /\ ModelMissing(2)
  /\ ~ModelMissing(3)
  /\ Cardinality(UnitsFrom(2)) = 24
  /\ Cardinality(DOMAIN files) = 12

-----------------------------------------------------------------------------
(* Vocabulary of the claim on the schemas directory *)

\* The segments of a path that name something.
NamedSegments(p) == normalizeSegments(p, <<>>)

EndsInSchemas(p) ==
  /\ NamedSegments(p) # <<>>
  /\ NamedSegments(p)[Len(NamedSegments(p))] = "schemas"

EndsInSchemasTwice(p) ==
  /\ Len(NamedSegments(p)) >= 2
  /\ NamedSegments(p)[Len(NamedSegments(p))] = "schemas"
  /\ NamedSegments(p)[Len(NamedSegments(p)) - 1] = "schemas"

\* C16: whatever the output path, the schemas directory ends in one
\* schemas segment and no more: an output path that ends with schemas is
\* the directory, and every unit written is under a directory that does not
\* end in schemas/schemas.
C16_ExactlyOneSchemasSegment ==
  /\ EndsInSchemas(getSchemasPath)
  /\ ~EndsInSchemasTwice(getSchemasPath)
  /\ EndsInSchemas(outputPath) =>
       NamedSegments(getSchemasPath) = NamedSegments(outputPath)
  /\ index.written =>
       index.path = NamedSegments(outputPath)
                      \o (IF EndsInSchemas(outputPath) THEN <<>>
                          ELSE <<"schemas">>)
                      \o <<"index.ts">>

\* The run on the output path "out/schemas/": every unit is under
\* out/schemas/schemas.
C16_SchemasTwice ==
  /\ pc = "done"
  /\ outputPath = <<"out", "schemas", "">>
  /\ getSchemasPath = <<"out", "schemas", "schemas">>
  /\ index.path = <<"out", "schemas", "schemas", "index.ts">>
  /\ files # NoFiles
  /\ \A f \in DOMAIN files : SubSeq(f, 1, 3) = <<"out", "schemas", "schemas">>

-----------------------------------------------------------------------------
(* Vocabulary of the claim on the extension of imports *)

\* The paths of the imports of other units in a text.
ImportPaths(text) ==
  { text[i] : i \in { j \in 2..Len(text) : text[j - 1] = " } from '" } }

\* The types whose object units the operation units import.
ImportedObjectTypes ==
  { "Select", "Include", "WhereUniqueInput", "WhereInput",
    "OrderByWithRelationInput", "OrderByWithAggregationInput",
    "ScalarWhereWithAggregatesInput", "CreateInput", "UncheckedCreateInput",
    "CreateManyInput", "UpdateInput", "UncheckedUpdateInput",
    "UpdateManyMutationInput", "CountAggregateInput", "MinAggregateInput",
    "MaxAggregateInput", "AvgAggregateInput", "SumAggregateInput" }

\* The paths of the units of the run as an import names them, without an
\* extension: from an operation unit and from an object unit.
UnitImportPaths ==
  { "./objects/" \o Str(models[i].name) \o t \o ".schema" :
      i \in 1..Len(models), t \in ImportedObjectTypes }
    \cup { "./enums/" \o Str(models[i].name) \o "ScalarFieldEnum.schema" :
             i \in 1..Len(models) }
    \cup { "./PostWhereInput.schema", "./UserWhereInput.schema",
           "../enums/Role.schema", "../findManyPost.schema" }

\* The extension the configuration of the client generator asks for.
ConfiguredExtension ==
  IF /\ prismaClientConfig.moduleFormat = "esm"
     /\ prismaClientConfig.importFileExtension \notin {Undefined, ""}
  THEN "." \o prismaClientConfig.importFileExtension
  ELSE ""

\* C17: when the configuration of the client generator has the module
\* format esm and an import file extension, every import of another unit in
\* every object unit and operation unit carries the extension; in any other
\* configuration none carries one; a run never has both.
C17_UniformImportExtension ==
  \A f \in DOMAIN files :
    ImportPaths(files[f])
      \subseteq { s \o ConfiguredExtension : s \in UnitImportPaths }

C17_Witness ==
  /\ pc = "done"
  /\ prismaClientConfig = EsmConfig
  /\ prismaClientProvider = "prisma-client-js"
  /\ Cardinality(DOMAIN files) = 14
  /\ "../enums/Role.schema.js"
       \in ImportPaths(files[ObjectUnitPath("UserWhereInput")])
  /\ "./PostWhereInput.schema.js"
       \in ImportPaths(files[ObjectUnitPath("UserWhereInput")])
  /\ \E f \in DOMAIN files :
       "./objects/UserWhereUniqueInput.schema.js" \in ImportPaths(files[f])
  /\ \E f \in DOMAIN files :
       "./enums/UserScalarFieldEnum.schema.js" \in ImportPaths(files[f])

\* The same run under a configuration that is not esm with an extension.
C17_WitnessNoExtension ==
  /\ pc = "done"
  /\ prismaClientConfig \in OtherConfigs
  /\ prismaClientProvider = "prisma-client"
  /\ Cardinality(DOMAIN files) = 14
  /\ "../findManyPost.schema"
       \in ImportPaths(files[ObjectUnitPath("UserWhereInput")])
  /\ \E f \in DOMAIN files :
       "./objects/UserWhereUniqueInput.schema" \in ImportPaths(files[f])

-----------------------------------------------------------------------------
(* Vocabulary of the claims on the references of a field *)

EnumAlternative(a) == a.location = "enumTypes" /\ a.type \notin ScalarTypes

\* The positions of a line at which token tok stands.
PositionsOf(line, tok) == { k \in 1..Len(line) : line[k] = tok }

\* C18: an alternative classified as an enum is emitted as the reference
\* <Enum>Schema, standing directly in the line and never inside a lazy
\* binding, whatever the name of the enum and the name of the composite.
C18_EnumDirect ==
  pc = "written" =>
    \A i \in 1..Len(fields) :
      \A k \in 1..Len(fields[i].inputTypes) :
        EnumAlternative(fields[i].inputTypes[k]) =>
          LET ref == Str(fields[i].inputTypes[k].type) \o "Schema"
          IN  /\ PositionsOf(LineOf(i), ref) # {}
              /\ \A q \in PositionsOf(LineOf(i), ref) :
                   ~IsLazyAt(LineOf(i), q)

\* An enum alternative that has the name of the composite: the line has the
\* lazy reference to the object schema of the composite and no reference to
\* the schema of the enum.
C18_EnumNamedLikeComposite ==
  /\ pc = "written"
  /\ Len(fields) = 1
  /\ Len(fields[1].inputTypes) = 1
  /\ fields[1].inputTypes[1].type = name
  /\ fields[1].inputTypes[1].location = "enumTypes"
  /\ fields[1].inputTypes[1].namespace = "model"
  /\ PositionsOf(LineOf(1), Str(name) \o "Schema") = {}
  /\ \E q \in PositionsOf(LineOf(1), Str(name) \o "ObjectSchema") :
       IsLazyAt(LineOf(1), q)

\* Every enum alternative of another name is emitted as the claim says.
C18_OtherNamesDirect ==
  pc = "written" =>
    \A i \in 1..Len(fields) :
      \A k \in 1..Len(fields[i].inputTypes) :
        /\ EnumAlternative(fields[i].inputTypes[k])
        /\ fields[i].inputTypes[k].type # name
        => LET ref == Str(fields[i].inputTypes[k].type) \o "Schema"
           IN  /\ PositionsOf(LineOf(i), ref) # {}
               /\ \A q \in PositionsOf(LineOf(i), ref) :
                    ~IsLazyAt(LineOf(i), q)

\* An alternative that denotes the find-many arguments of a model.
ModelQueryAlternative(a) ==
  /\ a.location = "inputObjectTypes"
  /\ Len(a.type) > 3
  /\ SubSeq(a.type, Len(a.type) - 2, Len(a.type)) = FindManyArgs

\* Capitalize(modelName) + Capitalize(operationVerb) + "Schema".
QuerySchemaName(a) ==
  toUpperCaseFirst(a.type[1]) \o Str(SubSeq(a.type, 2, Len(a.type) - 3))
    \o toUpperCaseFirst("findMany") \o "Schema"

\* An alternative generateObjectSchemaField emits a reference for.
Emitted(a) == a.namespace = "prisma"

\* C19: an alternative that denotes the find-many arguments of a model is
\* emitted as the reference Capitalize(model) + Capitalize(verb) + "Schema",
\* and the reference stands directly in the line, not inside a lazy binding.
C19_QueryReferenceDirect ==
  pc = "written" =>
    \A i \in 1..Len(fields) :
      \A k \in 1..Len(fields[i].inputTypes) :
        /\ ModelQueryAlternative(fields[i].inputTypes[k])
        /\ Emitted(fields[i].inputTypes[k])
        => LET ref == QuerySchemaName(fields[i].inputTypes[k])
           IN  /\ PositionsOf(LineOf(i), ref) # {}
               /\ \A q \in PositionsOf(LineOf(i), ref) :
                    ~IsLazyAt(LineOf(i), q)

\* C19, as the code has it: the reference has that name and every
\* occurrence of it is inside a lazy binding.
C19_QueryReferenceLazy ==
  pc = "written" =>
    \A i \in 1..Len(fields) :
      \A k \in 1..Len(fields[i].inputTypes) :
        /\ ModelQueryAlternative(fields[i].inputTypes[k])
        /\ Emitted(fields[i].inputTypes[k])
        => LET ref == QuerySchemaName(fields[i].inputTypes[k])
           IN  /\ PositionsOf(LineOf(i), ref) # {}
               /\ \A q \in PositionsOf(LineOf(i), ref) :
                    IsLazyAt(LineOf(i), q)

C19_Witness ==
  /\ pc = "written"
  /\ name = <<"User", "Include">>
  /\ Len(fields[1].inputTypes) = 2
  /\ fields[1].inputTypes[1].type = <<"Boolean">>
  /\ fields[1].inputTypes[2].type = <<"post">> \o FindManyArgs
  /\ fields[1].inputTypes[2].namespace = "prisma"
  /\ ~fields[1].inputTypes[2].isList
  /\ ~fields[1].isRequired
  /\ LineOf(1) = <<"posts", ":", " ", "z.union([", "z.boolean()", ",\r\n",
                   "z.lazy(() => ", "PostFindManySchema", ")", "])",
                   ".optional()">>
                   \o NullableWrapper(fields[1])

-----------------------------------------------------------------------------
(* Vocabulary of the claim on the select and include fragments *)

SelectIncludeOperations ==
  { "findUnique", "findFirst", "findMany", "createOne", "deleteOne",
    "updateOne", "upsertOne" }

\* The text has the fragment of the key: the key followed by a colon.
HasFragment(text, key) ==
  \E k \in 1..(Len(text) - 1) : text[k] = key /\ text[k + 1] = ": "

\* The text imports the definition of that name.
HasImport(text, importName) ==
  \E k \in 1..(Len(text) - 1) :
    text[k] = "import { " /\ text[k + 1] = importName

\* The text of the unit of operation op of the model of the run.
UnitText(op) == files[operationPath(modelOperations[1][op])]

\* C20: the units of findUnique, findFirst, findMany, createOne, deleteOne,
\* updateOne and upsertOne have the select fragment and its import iff the
\* select toggle is on, and the include fragment and its import iff the
\* include toggle is on and the model has a relation; the units of
\* createMany, deleteMany, updateMany, aggregate and groupBy have neither
\* fragment and neither import.
C20_SelectIncludeFragments ==
  \A op \in OperationNames :
    operationPath(modelOperations[1][op]) \in DOMAIN files =>
      LET M == Str(models[1].name)
          select == op \in SelectIncludeOperations /\ isGenerateSelect
          include == /\ op \in SelectIncludeOperations
                     /\ isGenerateInclude
                     /\ RelationFields(models[1]) # {}
      IN  /\ HasFragment(UnitText(op), "select") <=> select
          /\ HasImport(UnitText(op), M \o "SelectObjectSchema") <=> select
          /\ HasFragment(UnitText(op), "include") <=> include
          /\ HasImport(UnitText(op), M \o "IncludeObjectSchema") <=> include

C20_Witness ==
  /\ pc = "generated"
  /\ isGenerateSelect
  /\ isGenerateInclude
  /\ models = << TagModel >>
  /\ Cardinality(DOMAIN files) = 12
  /\ HasFragment(UnitText("findMany"), "select")
  /\ ~HasFragment(UnitText("findMany"), "include")
  /\ ~HasFragment(UnitText("createMany"), "select")

\* The same run on a model that has a relation.
C20_WitnessRelation ==
  /\ pc = "generated"
  /\ ~isGenerateSelect
  /\ isGenerateInclude
  /\ models = << UserModel >>
  /\ Cardinality(DOMAIN files) = 12
  /\ HasFragment(UnitText("upsertOne"), "include")
  /\ HasImport(UnitText("upsertOne"), "UserIncludeObjectSchema")
  /\ ~HasFragment(UnitText("upsertOne"), "select")
  /\ ~HasFragment(UnitText("groupBy"), "include")

-----------------------------------------------------------------------------
(* Vocabulary of the claims on the ordering and the aggregate fragments *)

OrderByOperations == { "findFirst", "findMany", "aggregate" }

RelevanceOrdering ==
  /\ provider \in {"postgresql", "mysql"}
  /\ previewFeatures # Undefined
  /\ "fullTextSearch" \in Range(previewFeatures)

\* The object schema the orderBy fragment of model M is to refer to, and
\* the one it is not to refer to.
OrderBySchema(M) ==
  IF RelevanceOrdering
  THEN M \o "OrderByWithRelationAndSearchRelevanceInputObjectSchema"
  ELSE M \o "OrderByWithRelationInputObjectSchema"

OtherOrderBySchema(M) ==
  IF RelevanceOrdering
  THEN M \o "OrderByWithRelationInputObjectSchema"
  ELSE M \o "OrderByWithRelationAndSearchRelevanceInputObjectSchema"

\* The text has the orderBy fragment on the object schema ref, alone or in
\* an array.
HasOrderBy(text, ref) ==
  \E k \in 1..(Len(text) - 6) :
    SubSeq(text, k, k + 6)
      = <<"orderBy", ": ", "z.union([", ref, ", ", ref, ".array()">>

\* C21: the orderBy fragment of findFirst, findMany and aggregate refers to
\* <Model>OrderByWithRelationAndSearchRelevanceInput iff the provider is
\* postgresql or mysql and fullTextSearch is among the preview features, to
\* <Model>OrderByWithRelationInput otherwise (the preview features being
\* undefined included), and the unit imports the type it refers to and not
\* the other.
C21_OrderByType ==
  \A op \in OrderByOperations :
    operationPath(modelOperations[1][op]) \in DOMAIN files =>
      LET M == Str(models[1].name)
      IN  /\ HasOrderBy(UnitText(op), OrderBySchema(M))
          /\ HasImport(UnitText(op), OrderBySchema(M))
          /\ PositionsOf(UnitText(op), OtherOrderBySchema(M)) = {}

C21_Witness ==
  /\ pc = "generated"
  /\ provider = "mysql"
  /\ previewFeatures = <<"fullTextSearch">>
  /\ HasOrderBy(UnitText("aggregate"),
       "UserOrderByWithRelationAndSearchRelevanceInputObjectSchema")
  /\ HasImport(UnitText("findFirst"),
       "UserOrderByWithRelationAndSearchRelevanceInputObjectSchema")

\* The same features under a provider that is not of the two.
C21_WitnessOtherProvider ==
  /\ pc = "generated"
  /\ provider = "sqlite"
  /\ previewFeatures = <<"fullTextSearch">>
  /\ HasOrderBy(UnitText("findMany"), "TagOrderByWithRelationInputObjectSchema")

\* The kinds of aggregate in the order of the claim: the flag, the key of
\* the fragment and the object schema of model M.
AggregateKindsInOrder == <<"count", "min", "max", "avg", "sum">>

AggregateKey(kind) == "_" \o kind

AggregateSchema(M, kind) ==
  M \o (CASE kind = "count" -> "Count" [] kind = "min" -> "Min"
          [] kind = "max" -> "Max" [] kind = "avg" -> "Avg"
          [] kind = "sum" -> "Sum")
    \o "AggregateInputObjectSchema"

\* The text has the optional fragment of the key on the schema ref.
HasOptionalFragment(text, key, ref) ==
  \E k \in 1..(Len(text) - 3) :
    SubSeq(text, k, k + 3) = <<key, ": ", ref, ".optional()">>

\* C22: for each of count, min, max, avg and sum the unit of aggregate has
\* the optional fragment of the kind and the import of its
\* <Model><Kind>AggregateInput object schema iff the model's flag of the
\* kind is true, and the fragments stand in the order count, min, max, avg,
\* sum.
C22_AggregateFragments ==
  operationPath(modelOperations[1]["aggregate"]) \in DOMAIN files =>
    LET M == Str(models[1].name)
        text == UnitText("aggregate")
        support == aggregateOperationSupport[models[1].name]
    IN  /\ \A i \in 1..5 :
             LET kind == AggregateKindsInOrder[i]
             IN  /\ HasOptionalFragment(text, AggregateKey(kind),
                                        AggregateSchema(M, kind))
                      <=> support[kind]
                 /\ PositionsOf(text, AggregateKey(kind)) # {}
                      <=> support[kind]
                 /\ HasImport(text, AggregateSchema(M, kind)) <=> support[kind]
                 /\ Cardinality(PositionsOf(text, AggregateKey(kind))) <= 1
        /\ \A i, j \in 1..5 :
             i < j =>
               \A p \in PositionsOf(text, AggregateKey(AggregateKindsInOrder[i])) :
                 \A q \in PositionsOf(text, AggregateKey(AggregateKindsInOrder[j])) :
                   p < q

C22_Witness ==
  /\ pc = "generated"
  /\ models = << UserModel >>
  /\ aggregateOperationSupport[<<"User">>]
       = [ count |-> TRUE, min |-> FALSE, max |-> TRUE, avg |-> FALSE,
           sum |-> TRUE ]
  /\ HasOptionalFragment(UnitText("aggregate"), "_max",
                         "UserMaxAggregateInputObjectSchema")
  /\ HasImport(UnitText("aggregate"), "UserSumAggregateInputObjectSchema")
  /\ PositionsOf(UnitText("aggregate"), "_min") = {}
  /\ ~HasImport(UnitText("aggregate"), "UserAvgAggregateInputObjectSchema")

-----------------------------------------------------------------------------
(* Vocabulary of the claim on the fields of include types *)

\* The relation fields of a model, in the order of the model.
RelationFieldsInOrder(model) ==
  SelectSeq(model.fields,
            LAMBDA f : f.kind = "object" /\ f.relationName # Undefined)

\* The fields of an include type that stand for fields of the model: all
\* but the count field.
ModelFieldsOf(type) == SelectSeq(type.fields, LAMBDA f : f.name # "_count")

NestedArgs(modelField) ==
  Str(modelField.type)
    \o (IF modelField.isList THEN "FindManyArgs" ELSE "DefaultArgs")

\* C23: the <Model>Include type of a model with a relation has, for the
\* fields of the model, one field per relation field, in the order of the
\* model, and none for another field; each is not required and not
\* nullable and has two alternatives, Boolean and then <Target>FindManyArgs
\* when the relation is list-valued, <Target>DefaultArgs when it is not.
C23_IncludeFields ==
  pc = "included" =>
    \A i \in 1..Len(models) :
      RelationFields(models[i]) # {} =>
        /\ TypesNamed(IncludeName(models[i])) # {}
        /\ \A t \in TypesNamed(IncludeName(models[i])) :
             LET got == ModelFieldsOf(inputObjectTypes[t])
                 rel == RelationFieldsInOrder(models[i])
             IN  /\ Len(got) = Len(rel)
                 /\ \A n \in 1..Len(got) :
                      /\ got[n].name = rel[n].name
                      /\ got[n].isRequired = FALSE
                      /\ got[n].isNullable = FALSE
                      /\ Len(got[n].inputTypes) = 2
                      /\ got[n].inputTypes[1].type = <<"Boolean">>
                      /\ got[n].inputTypes[1].location = "scalar"
                      /\ got[n].inputTypes[1].isList = FALSE
                      /\ Str(got[n].inputTypes[2].type) = NestedArgs(rel[n])
                      /\ got[n].inputTypes[2].location = "inputObjectTypes"
                      /\ got[n].inputTypes[2].namespace = "prisma"
                      /\ got[n].inputTypes[2].isList = FALSE

C23_Witness ==
  /\ pc = "included"
  /\ Len(models) = 2
  /\ Len(models[1].fields) = 2
  /\ RelationFields(models[1]) = {2}
  /\ ~models[1].fields[2].isList
  /\ RelationFields(models[2]) = {1, 2}
  /\ models[2].fields[1].isList
  /\ ~models[2].fields[2].isList
  /\ \E t \in TypesNamed(IncludeName(models[1])) :
       /\ Len(inputObjectTypes[t].fields) = 1
       /\ inputObjectTypes[t].fields[1].name = "posts"
       /\ Str(inputObjectTypes[t].fields[1].inputTypes[2].type)
            = "UserDefaultArgs"
  /\ \E t \in TypesNamed(IncludeName(models[2])) :
       /\ Len(inputObjectTypes[t].fields) = 3
       /\ Str(inputObjectTypes[t].fields[1].inputTypes[2].type)
            = "PostFindManyArgs"
       /\ Str(inputObjectTypes[t].fields[2].inputTypes[2].type)
            = "UserDefaultArgs"

-----------------------------------------------------------------------------
(* Vocabulary of the claim on the verdict on the Prisma type *)

AnnotationToken == ": z.ZodType<Prisma."

\* The text without the annotation of the strict type: the token that
\* opens it, the name of the type and the token that closes it.
WithoutAnnotation(text) ==
  IF PositionsOf(text, AnnotationToken) = {} THEN text
  ELSE LET a == CHOOSE k \in PositionsOf(text, AnnotationToken) : TRUE
       IN  SubSeq(text, 1, a - 1) \o SubSeq(text, a + 3, Len(text))

\* The verdict on the composite of the unit.
Verdict == isPrismaTypeAvailable(name) \/ hasComplexRelations(name, fields)

\* The unit of the composite as it is on either verdict, the annotation
\* apart: the imports, the validator and the exported name.
UnitOnEitherVerdict ==
  generateObjectSchemaImportStatements(schemaImports)
    \o generateImportPrismaStatement(NoBasePath)
    \o generateJsonSchemaImplementation(hasJson)
    \o <<"const Schema", " = ">>
    \o addFinalWrappers(zodObjectSchemaFields)
    \o <<";\n\n ", "export const ", Str(name) \o "ObjectSchema", " = Schema",
         "\n">>

\* C24: the verdict of isPrismaTypeAvailable and hasComplexRelations decides
\* whether the annotation of the strict type is attached and nothing else:
\* the path of the unit, its imports, its validator and its exported name
\* are what they are on the other verdict.
C24_VerdictOnlyAnnotates ==
  pc = "written" =>
    /\ DOMAIN files = { ObjectUnitPath(Str(name)) }
    /\ WithoutAnnotation(files[ObjectUnitPath(Str(name))]) = UnitOnEitherVerdict
    /\ Cardinality(PositionsOf(files[ObjectUnitPath(Str(name))],
                               AnnotationToken))
         = IF Verdict THEN 1 ELSE 0

C24_Witness ==
  /\ pc = "written"
  /\ name = <<"User", "Create", "Many", "Input">>
  /\ ~Verdict
  /\ Len(fields[1].inputTypes) = 2
  /\ fields[1].inputTypes[1].type = <<"Post", "Where", "Input">>
  /\ fields[1].inputTypes[2].type = <<"Post", "Where", "Unique", "Input">>
  /\ fields[1].inputTypes[2].namespace = "model"
  /\ PositionsOf(files[ObjectUnitPath("UserCreateManyInput")],
                 AnnotationToken) = {}

\* The same composite with a field that counts as a complex relation.
C24_WitnessAvailable ==
  /\ pc = "written"
  /\ name = <<"User", "Create", "Many", "Input">>
  /\ Verdict
  /\ Len(fields[1].inputTypes) = 2
  /\ fields[1].inputTypes[1].type = <<"Post", "Where", "Input">>
  /\ fields[1].inputTypes[2].type = <<"Post", "Where", "Unique", "Input">>
  /\ fields[1].inputTypes[2].namespace = "prisma"
  /\ PositionsOf(files[ObjectUnitPath("UserCreateManyInput")],
                 AnnotationToken) # {}

-----------------------------------------------------------------------------
(* Vocabulary of the claims on the imports of an object unit *)

\* An alternative emitted as a reference to an enum or to a composite.
ReferenceAlternative(a) ==
  /\ a.type \notin ScalarTypes
  /\ a.location = "enumTypes" \/ a.namespace = "prisma"

\* The names of the types the fields of the unit refer to, the name of the
\* unit apart.
ReferencedTypeNames ==
  UNION { { fields[i].inputTypes[k].type :
              k \in { j \in 1..Len(fields[i].inputTypes) :
                        ReferenceAlternative(fields[i].inputTypes[j]) } } :
          i \in 1..Len(fields) }
    \ {name}

\* The positions of the import statements of other units in a text.
ImportStatements(text) ==
  { k \in 3..Len(text) : text[k - 2] = "import { " /\ text[k] = " } from '" }

TextOfUnit == files[ObjectUnitPath(Str(resolveObjectSchemaName(name)))]

\* C25: the imports of an object unit are the distinct names of the types
\* its emitted enum and composite alternatives refer to, the name of the
\* unit apart: one import for each, however many fields refer to it, none
\* for a type no alternative refers to, and none for the unit itself.
C25_ImportsAreReferencedTypes ==
  pc = "written" =>
    /\ Range(schemaImports) = ReferencedTypeNames
    /\ Len(schemaImports) = Cardinality(ReferencedTypeNames)
    /\ name \notin Range(schemaImports)
    /\ Cardinality(ImportStatements(TextOfUnit))
         = Cardinality(ReferencedTypeNames)
    /\ Cardinality(ImportPaths(TextOfUnit)) = Cardinality(ReferencedTypeNames)
    /\ "./" \o Str(name) \o ".schema" \notin ImportPaths(TextOfUnit)

C25_Witness ==
  /\ pc = "written"
  /\ Len(fields) = 2
  /\ Len(fields[1].inputTypes) = 2
  /\ Len(fields[2].inputTypes) = 2
  /\ fields[1].inputTypes[1].type = <<"Post", "Where", "Input">>
  /\ fields[1].inputTypes[2].type = name
  /\ fields[2].inputTypes[1].type = <<"Role">>
  /\ fields[2].inputTypes[2].type = <<"Post", "Where", "Input">>
  /\ schemaImports = << <<"Post", "Where", "Input">>, <<"Role">> >>
  /\ ImportPaths(TextOfUnit) = { "./PostWhereInput.schema",
                                 "../enums/Role.schema" }

-----------------------------------------------------------------------------
(* Vocabulary of the claim on a failure of generateModelSchemas *)

\* A step keeps every unit written so far, with the text it was written with.
KeepsUnits ==
  \A p \in DOMAIN files : p \in DOMAIN files' /\ files'[p] = files[p]

\* The run failed in the aggregate block of mapping m: the mapping has the
\* operation, its model exists and has no entry of aggregate support.
FailedInAggregate(m) ==
  /\ pc = "failed"
  /\ cursor.m = m
  /\ Operations[cursor.op] = "aggregate"
  /\ findModelByName(models, modelOperations[m].model) # 0
  /\ modelOperations[m].model \notin DOMAIN aggregateOperationSupport

\* C26: when the assembly of a unit fails during generateModelSchemas (the
\* model of a mapping is missing, or a model with the aggregate operation has
\* no entry of aggregate support), the failing step writes, alters and
\* removes nothing, and no step alters or removes a unit written before: the
\* units written before the failure keep the content they were written with.
C26_FailureKeepsUnits ==
  [][ /\ KeepsUnits
      /\ pc' = "failed" => files' = files ]_vars

C26_Witness ==
  /\ Len(modelOperations) >= 2
  /\ FailedInAggregate(2)
  /\ Cardinality(DOMAIN files) = 22

-----------------------------------------------------------------------------
(* Vocabulary of the claim on the identifiers a unit imports *)

\* The text has the statement that imports identifier ident from path.
ImportedFrom(text, ident, path) ==
  \E q \in 1..(Len(text) - 4) :
    /\ text[q] = "import { "
    /\ text[q + 1] = ident
    /\ text[q + 2] = " } from '"
    /\ text[q + 3] = path \o getImportFileExtension
    /\ text[q + 4] = "'"

\* The identifiers the text imports.
ImportedIdentifiers(text) ==
  { text[q + 1] : q \in { r \in 1..(Len(text) - 4) : text[r] = "import { " } }

\* An alternative of the composite kind that is not a model query type.
CompositeAlternative(a) ==
  /\ a.location = "inputObjectTypes"
  /\ a.namespace = "prisma"
  /\ ~checkIsModelQueryType(a.type).isModelQueryType

\* C27: in an object unit every identifier a field expression references,
\* other than the schema of the unit itself, is imported under that
\* identifier from the path of its kind: an enum referenced as <E>Schema
\* from ../enums/<E>.schema, a composite referenced as <T>ObjectSchema from
\* ./<T>.schema, whatever the name of the enum or of the type.
C27_ReferencesImported ==
  pc = "written" =>
    \A i \in 1..Len(fields) :
      \A k \in 1..Len(fields[i].inputTypes) :
        LET a == fields[i].inputTypes[k]
            E == Str(a.type)
        IN  a.type # name =>
              /\ ( /\ EnumAlternative(a)
                   /\ PositionsOf(LineOf(i), E \o "Schema") # {} )
                 => ImportedFrom(TextOfUnit, E \o "Schema",
                                 "../enums/" \o E \o ".schema")
              /\ ( /\ CompositeAlternative(a)
                   /\ PositionsOf(LineOf(i), E \o "ObjectSchema") # {} )
                 => ImportedFrom(TextOfUnit, E \o "ObjectSchema",
                                 "./" \o E \o ".schema")

\* An enum the registry of enum names lacks: the field references
\* SortOrderSchema, and the unit imports SortOrderObjectSchema from
\* ./SortOrder.schema and no SortOrderSchema.
C27_UnregisteredEnum ==
  /\ pc = "written"
  /\ SortOrder \notin Range(enumNames)
  /\ Len(fields[1].inputTypes) = 1
  /\ fields[1].inputTypes[1].type = SortOrder
  /\ fields[1].inputTypes[1].location = "enumTypes"
  /\ PositionsOf(LineOf(1), "SortOrderSchema") # {}
  /\ "SortOrderSchema" \notin ImportedIdentifiers(TextOfUnit)
  /\ ImportedFrom(TextOfUnit, "SortOrderObjectSchema", "./SortOrder.schema")

-----------------------------------------------------------------------------
(* Vocabulary of the claim on the references to composites *)

\* An alternative that is not an enum and not a scalar: a composite.
NonEnumComposite(a) ==
  a.location = "inputObjectTypes" /\ a.type \notin ScalarTypes

\* The identifier by which a composite alternative is referenced.
CompositeReference(a) ==
  IF ModelQueryAlternative(a) THEN QuerySchemaName(a)
  ELSE Str(a.type) \o "ObjectSchema"

\* The alternatives of field f that emit the reference ref: the composites
\* of the host namespace, and an alternative located among the enums that
\* has the name of the unit (it is emitted as the unit's own object schema).
EmittersOf(f, ref) ==
  { k \in 1..Len(f.inputTypes) :
      LET a == f.inputTypes[k]
      IN  /\ CompositeReference(a) = ref
          /\ \/ NonEnumComposite(a) /\ a.namespace = "prisma"
             \/ a.location = "enumTypes" /\ a.type = name }

\* C28: every reference to a non-enum composite emitted in an object schema
\* stands inside a lazy binding; a composite alternative is emitted exactly
\* when its namespace is prisma, and one of any other namespace is dropped:
\* the line of a field has one reference per emitting alternative, each of
\* them lazy, and none for the others.
C28_CompositeLazyOrDropped ==
  pc = "written" =>
    \A i \in 1..Len(fields) :
      ResolvableAlts(fields[i]) # <<>> =>
        \A k \in 1..Len(fields[i].inputTypes) :
          NonEnumComposite(fields[i].inputTypes[k]) =>
            LET ref == CompositeReference(fields[i].inputTypes[k])
            IN  /\ Count(LineOf(i), ref)
                     = Cardinality(EmittersOf(fields[i], ref))
                /\ \A q \in PositionsOf(LineOf(i), ref) :
                     IsLazyAt(LineOf(i), q)

C28_Witness ==
  /\ pc = "written"
  /\ name = <<"User", "Where", "Input">>
  /\ Len(fields[1].inputTypes) = 2
  /\ fields[1].inputTypes[1].type = <<"Post", "Where", "Input">>
  /\ fields[1].inputTypes[1].location = "inputObjectTypes"
  /\ fields[1].inputTypes[1].namespace = "prisma"
  /\ fields[1].inputTypes[2].type = <<"Post", "Where", "Input">>
  /\ fields[1].inputTypes[2].location = "inputObjectTypes"
  /\ fields[1].inputTypes[2].namespace = "model"
  /\ PositionsOf(LineOf(1), "PostWhereInputObjectSchema") = {5}
  /\ IsLazyAt(LineOf(1), 5)

-----------------------------------------------------------------------------
(* Vocabulary of the claim on the reference to a find-many unit *)

\* The find-many unit of the model: the path it is written at.
FindManyUnit ==
  pathJoin(getSchemasPath, << modelOperations[1].findMany \o ".schema.ts" >>)

\* The module path by which a unit of the objects directory reaches the
\* find-many unit.
FindManyModule == "../" \o modelOperations[1].findMany \o ".schema"

BothUnitsWritten == pc \in {"generated", "index"}

\* C29: the identifier by which an object unit references the find-many
\* arguments of model M, and the module it imports it from, are the
\* identifier the find-many unit of M exports and the path that unit is
\* written at, whatever the first letter of M.
C29_ReferenceMeetsExport ==
  BothUnitsWritten =>
    /\ FindManyUnit \in DOMAIN files
    /\ \A k \in ImportStatements(TextOfUnit) :
         /\ TextOfUnit[k + 1] = FindManyModule \o getImportFileExtension
         /\ TextOfUnit[k - 1] \in Exports(files[FindManyUnit])
         /\ PositionsOf(LineOf(1), TextOfUnit[k - 1]) # {}
    /\ ImportStatements(TextOfUnit) # {}

\* A model named post: the object unit references and imports
\* PostFindManySchema from ../findManypost.schema, and the unit written at
\* that path exports postFindManySchema only.
C29_LowerCaseModel ==
  /\ BothUnitsWritten
  /\ models[1].name = <<"post">>
  /\ PositionsOf(LineOf(1), "PostFindManySchema") # {}
  /\ ImportedFrom(TextOfUnit, "PostFindManySchema", "../findManypost.schema")
  /\ FindManyUnit = pathJoin(getSchemasPath, <<"findManypost.schema.ts">>)
  /\ Exports(files[FindManyUnit]) = { "postFindManySchema" }

-----------------------------------------------------------------------------
(* Vocabulary of the claim on the include schema an operation unit imports *)

\* The helper has generated the include type of the model of mapping i.
IncludeGenerated(i) ==
  TypesNamed(modelOperations[i].model \o <<"Include">>) # {}

\* The unit of operation op of mapping i imports the include schema of the
\* model.
ImportsInclude(i, op) ==
  HasImport(files[UnitOf(i, op)],
            Str(modelOperations[i].model) \o "IncludeObjectSchema")

\* The include types among the input object types.
IncludeTypes ==
  { k \in 1..Len(inputObjectTypes) :
      /\ inputObjectTypes[k].name # <<>>
      /\ inputObjectTypes[k].name[Len(inputObjectTypes[k].name)] = "Include" }

\* C30: with the include toggle on, an operation unit imports and
\* references <Model>IncludeObjectSchema only for a model the include helper
\* has generated <Model>Include for, the units of the operations that take
\* an include do so for every such model, and every generated include type
\* has at least one field.
C30_IncludeImportedIffGenerated ==
  pc # "include" =>
    /\ \A i \in Mappings : \A op \in OperationNames :
         Written(i, op) =>
           /\ ImportsInclude(i, op) => IncludeGenerated(i)
           /\ HasFragment(files[UnitOf(i, op)], "include")
                => IncludeGenerated(i)
           /\ op \in SelectIncludeOperations =>
                (IncludeGenerated(i) => ImportsInclude(i, op))
    /\ \A k \in IncludeTypes : Len(inputObjectTypes[k].fields) >= 1

C30_Witness ==
  /\ pc = "generated"
  /\ isGenerateInclude
  /\ models = << PostModel, TagModel >>
  /\ Written(1, "findMany")
  /\ Written(2, "findMany")
  /\ ImportsInclude(1, "findMany")
  /\ IncludeGenerated(1)
  /\ ~ImportsInclude(2, "findMany")
  /\ ~IncludeGenerated(2)
  /\ Cardinality(IncludeTypes) = 1

====
